---- MODULE Spec2Model ----
(***************************************************************************)
(* OpenClawClient (client.ts): the gateway protocol client.                *)
(*                                                                         *)
(* The client is event driven.  One step of the model is one macrotask of  *)
(* the JavaScript event loop (an API call, an event of a socket, a timer   *)
(* callback) together with the promise reactions it makes runnable.  The   *)
(* ws library may emit several 'message' events from one chunk of data     *)
(* without returning to the event loop in between; `batch` says that the   *)
(* promise reactions of the messages handled so far have not run yet.      *)
(*                                                                         *)
(* Time is counted in ticks; a timer holds the ticks left until it is due. *)
(***************************************************************************)
EXTENDS Integers, Sequences, FiniteSets, TLC

(* ------------------------------ bounds -------------------------------- *)
MaxCalls == 2            \* sendMessage() invocations
MaxConnects == 2         \* connect() invocations (one socket each)
MaxChallenges == 1       \* connect.challenge events the server emits
MaxFragments == 2        \* fragments held by the stream buffer
TicksPerTimeout == 2     \* ticks in the agent request timeout
MaxStops == 3            \* stopGateway() calls: run() makes up to two, the hard timeout one
ForceKillTicks == 2      \* ticks in the 5 seconds before SIGKILL

(* ---------------------------- constants ------------------------------- *)
AgentRequestTimeoutMs == 300000
AgentLifecycleTimeoutMs == 300000
DefaultConnectTimeoutMs == 30000
PROTOCOL_VERSION == 3
ForceKillMs == 5000
TickMs == AgentRequestTimeoutMs \div TicksPerTimeout
\* a delay in ticks, rounded up: a timer is never due before its delay has passed
Ticks(ms) == (ms + TickMs - 1) \div TickMs

NotConnected == "Not connected"
AgentRequestTimeout == "Agent request timeout after 300s"
AgentLifecycleTimeout == "Agent lifecycle timeout after 300s"
ConnectHandshakeTimeout == "Connect handshake timeout"
ClosedDuringHandshake == "WebSocket closed during handshake"
SocketFailure == "socket error"
RequestFailed == "Request failed"
UnknownError == "Unknown error"
NoResponseTextCaptured == "(no response text captured)"
EmptyResponse == "(empty response)"
ErrorPrefix == "Error: "                 \* the code puts a warning sign before it
ConnectRejectedPrefix == "Connect rejected: "

CallIds == 1..MaxCalls
ConnIds == 1..MaxConnects
MaxId == MaxCalls + MaxChallenges
ConnectTimeoutsMs == {DefaultConnectTimeoutMs}   \* the timeoutMs a caller passes

(* What the server may put on the wire. *)
FragmentTexts == {"Hello, ", "world"}
Nonces == {"", "n1"}                    \* "" : the challenge carries no nonce
ErrorTexts == {"", "boom"}              \* "" : the field is absent

VARIABLES
  ws,                    \* this.ws: 0 (null) or the socket it holds
  sockets,               \* the sockets created so far: their state
  requestId,             \* this.requestId
  pendingRequests,       \* this.pendingRequests: id -> record
  streamBuffer,          \* this.streamBuffer
  lifecycleEndPromise,   \* this.lifecycleEndPromise: 0 or the call that made it
  lifecycleEndResolve,   \* this.lifecycleEndResolve: 0 or the call whose promise it resolves
  agentCompletionResolve,\* this.agentCompletionResolve: 0 or the call whose promise it resolves
  connectResolve,        \* this.connectResolve: 0 or the connect() whose promise it resolves
  connectReject,         \* this.connectReject
  connectRequestId,      \* this.connectRequestId: 0 (null) or an id
  connects,              \* the promise returned by each connect()
  calls,                 \* each sendMessage() invocation: its promises and where it is suspended
  timers,                \* the armed timers: timer -> ticks left
  sent,                  \* the requests written to a socket
  challenges,            \* connect.challenge events emitted so far
  batch,                 \* 0, or the socket whose messages are handled with reactions deferred
  caller,                \* "run": the caller awaits each promise, as run() does; "any": it does not
  observed,              \* per call, for the properties: ticks waited, fragments received
  greeted,               \* for the properties: the connect() calls the server has welcomed
  handshakes,            \* for the properties: per connect(), what happened to its handshake
  given,                 \* the arguments a function of the action is applied to
  returned,              \* the values it has returned so far
  actionsCache,          \* the cache of GitHub Actions for the repository: its entries, oldest first
  workspace,             \* the workspace directory of the run under way
  gateway,               \* gateway.ts: gatewayProcess, the child process, the stopGateway() calls
  main                   \* index.ts: where run() is, its `client`, what it has cleaned up

vars == <<ws, sockets, requestId, pendingRequests, streamBuffer, lifecycleEndPromise,
          lifecycleEndResolve, agentCompletionResolve, connectResolve, connectReject,
          connectRequestId, connects, calls, timers, sent, challenges, batch, caller,
          observed, greeted, handshakes, given, returned, actionsCache, workspace,
          gateway, main>>

\* what the client does not touch: who calls it, and the rest of the action
harness == <<caller, given, returned, actionsCache, workspace, gateway, main>>
\* the client and what the properties observe of it
client == <<ws, sockets, requestId, pendingRequests, streamBuffer, lifecycleEndPromise,
            lifecycleEndResolve, agentCompletionResolve, connectResolve, connectReject,
            connectRequestId, connects, calls, timers, sent, challenges, batch,
            observed, greeted, handshakes>>

(* ------------------------------ helpers ------------------------------- *)
EmptyMap == [x \in {} |-> 0]
Put(f, k, v) == [x \in (DOMAIN f) \cup {k} |-> IF x = k THEN v ELSE f[x]]
Remove(f, k) == [x \in (DOMAIN f) \ {k} |-> f[x]]
RemoveAll(f, ks) == [x \in (DOMAIN f) \ ks |-> f[x]]

\* Array.prototype.join(sep) on an array of strings
RECURSIVE JoinWith(_, _)
JoinWith(parts, sep) ==
  IF parts = <<>> THEN ""
  ELSE IF Len(parts) = 1 THEN parts[1]
  ELSE parts[1] \o sep \o JoinWith(Tail(parts), sep)

\* Array.prototype.filter(Boolean) on an array of strings: drops the empty ones
RECURSIVE FilterNonEmpty(_)
FilterNonEmpty(parts) ==
  IF parts = <<>> THEN <<>>
  ELSE IF parts[1] = "" THEN FilterNonEmpty(Tail(parts))
  ELSE <<parts[1]>> \o FilterNonEmpty(Tail(parts))

\* a || b on strings
OrElse(a, b) == IF a # "" THEN a ELSE b

(* ------------------------------- timers ------------------------------- *)
ConnectTimer(k) == [kind |-> "connect", of |-> k]
RequestTimer(c) == [kind |-> "request", of |-> c]
LifecycleTimer(c) == [kind |-> "lifecycle", of |-> c]
SetTimeout(tm, t, ticks) == Put(tm, t, ticks)
ClearTimeout(tm, t) == Remove(tm, t)
Due(t) == t \in DOMAIN timers /\ timers[t] = 0

(* ------------------------------ sockets ------------------------------- *)
\* ws.readyState of a socket that exists
ReadyState(st) ==
  CASE st = "CONNECTING" -> "CONNECTING"
    [] st = "OPEN" -> "OPEN"
    [] st \in {"CLOSING", "ABORTING", "ERRORED"} -> "CLOSING"
    [] OTHER -> "CLOSED"

(* --------------------- the messages of the server --------------------- *)
\* protocol 0: the payload names no protocol version
NoPayload ==
  [type |-> "", status |-> "", result |-> <<>>, summary |-> "", error |-> "", protocol |-> 0]
HelloOk == [NoPayload EXCEPT !.type = "hello-ok", !.protocol = PROTOCOL_VERSION]
\* hello-ok payloads with a version the client did not ask for, and with none
OtherHellos ==
  {[NoPayload EXCEPT !.type = "hello-ok", !.protocol = PROTOCOL_VERSION - 1],
   [NoPayload EXCEPT !.type = "hello-ok"]}
HelloResponses(ids) ==
  {[type |-> "res", id |-> i, ok |-> TRUE, error |-> "", payload |-> p] :
     i \in ids, p \in OtherHellos}
Accepted == [NoPayload EXCEPT !.status = "accepted"]
ErrorPayloads ==
  {[NoPayload EXCEPT !.status = "error", !.error = "boom", !.summary = "failed"],
   [NoPayload EXCEPT !.status = "error", !.summary = "failed"],
   [NoPayload EXCEPT !.status = "error"]}
CompletionPayloads ==
  {[NoPayload EXCEPT !.status = "ok", !.result = <<"R1", "", "R2">>, !.summary = "completed"],
   [NoPayload EXCEPT !.status = "ok", !.summary = "completed", !.error = "boom"],
   [NoPayload EXCEPT !.status = "ok", !.error = "boom"],
   [NoPayload EXCEPT !.status = "ok"]}
Payloads == {NoPayload, HelloOk, Accepted} \cup ErrorPayloads \cup CompletionPayloads

Responses(ids) ==
  {[type |-> "res", id |-> i, ok |-> TRUE, error |-> "", payload |-> p] :
     i \in ids, p \in Payloads}
  \cup
  {[type |-> "res", id |-> i, ok |-> FALSE, error |-> e, payload |-> NoPayload] :
     i \in ids, e \in ErrorTexts}

Events ==
  {[type |-> "event", event |-> "connect.challenge", nonce |-> n, stream |-> "", text |-> "",
    state |-> ""] : n \in Nonces}
  \cup
  {[type |-> "event", event |-> "agent", nonce |-> "", stream |-> s, text |-> t,
    state |-> ""] : s \in {"assistant", "tool"}, t \in FragmentTexts \cup {""}}
  \cup
  {[type |-> "event", event |-> "lifecycle", nonce |-> "", stream |-> "", text |-> "",
    state |-> st] : st \in {"start", "end"}}

\* a frame that does not parse, and one whose type is neither "res" nor "event"
Malformed == {[type |-> "garbage"], [type |-> "req"]}

Messages(ids) == Responses(ids) \cup Events \cup Malformed

\* A smaller choice of the same messages, for the caller that awaits nothing.
PlainPayloads ==
  {HelloOk, Accepted, [NoPayload EXCEPT !.status = "error", !.error = "boom"],
   [NoPayload EXCEPT !.status = "ok", !.result = <<"R1">>]}
PlainMessages(ids) ==
  {m \in Messages(ids) :
     \/ m.type = "res" /\ m.ok /\ m.payload \in PlainPayloads
     \/ m.type = "res" /\ ~m.ok /\ m.error = "boom"
     \/ m.type = "event" /\ m.event = "connect.challenge" /\ m.nonce = "n1"
     \/ m.type = "event" /\ m.event = "agent" /\ m.stream = "assistant" /\ m.text = "world"
     \/ m.type = "event" /\ m.event = "lifecycle" /\ m.state = "end"
     \/ m.type = "garbage"}

\* The messages of the handshake and of the two phases of a call, for the caller with
\* several calls in flight.
OverlapMessages(ids) ==
  {m \in PlainMessages(ids) :
     \/ m.type = "res" /\ m.ok
     \/ m.type = "event" /\ m.event \in {"connect.challenge", "lifecycle"}}

\* The messages for the caller that makes its calls one after the other: the events of
\* an agent run name the call whose acceptance started the run.
SeriesMessages(ids) ==
  {m \in PlainMessages(ids) :
     \/ m.type = "res" /\ m.ok /\ m.payload.status # "error"
     \/ m.type = "event" /\ m.event = "connect.challenge"}
  \cup
  {[type |-> "event", event |-> "agent", nonce |-> "", stream |-> "assistant",
    text |-> "world", state |-> "", run |-> r] : r \in CallIds}
  \cup
  {[type |-> "event", event |-> "lifecycle", nonce |-> "", stream |-> "", text |-> "",
    state |-> "end", run |-> r] : r \in CallIds}

(* ----------------------- the state as one value ----------------------- *)
\* The handlers below are functions from the state before to the state after.
This ==
  [ws |-> ws, sockets |-> sockets, requestId |-> requestId,
   pendingRequests |-> pendingRequests, streamBuffer |-> streamBuffer,
   lifecycleEndPromise |-> lifecycleEndPromise, lifecycleEndResolve |-> lifecycleEndResolve,
   agentCompletionResolve |-> agentCompletionResolve, connectResolve |-> connectResolve,
   connectReject |-> connectReject, connectRequestId |-> connectRequestId,
   connects |-> connects, calls |-> calls, timers |-> timers, sent |-> sent]

Commit(s) ==
  /\ ws' = s.ws
  /\ sockets' = s.sockets
  /\ requestId' = s.requestId
  /\ pendingRequests' = s.pendingRequests
  /\ streamBuffer' = s.streamBuffer
  /\ lifecycleEndPromise' = s.lifecycleEndPromise
  /\ lifecycleEndResolve' = s.lifecycleEndResolve
  /\ agentCompletionResolve' = s.agentCompletionResolve
  /\ connectResolve' = s.connectResolve
  /\ connectReject' = s.connectReject
  /\ connectRequestId' = s.connectRequestId
  /\ connects' = s.connects
  /\ calls' = s.calls
  /\ timers' = s.timers
  /\ sent' = s.sent

NoConnect == [state |-> "none", error |-> ""]
NoCall ==
  [pc |-> "none", id |-> 0,
   accepted |-> "pending", acceptErr |-> "",     \* acceptedPromise
   completed |-> FALSE, completionText |-> "",   \* agentCompletionPromise
   lifecycleEnd |-> FALSE,                       \* the lifecycleEndPromise this call made
   fallback |-> 0,                               \* the call whose lifecycleEndPromise the fallback waits on
   timedOut |-> FALSE,                           \* timeoutPromise
   result |-> "", error |-> ""]

Suspended(call) == call.pc \in {"awaitAccept", "race"}
Settled(call) == call.pc \in {"resolved", "rejected"}

(* -------------------------- promise plumbing -------------------------- *)
\* the wrappers installed by connect(): clear the handshake timer, settle the promise
SettleConnect(s, k, outcome, err) ==
  [s EXCEPT !.timers = ClearTimeout(@, ConnectTimer(k)),
            !.connects[k] = IF @.state = "pending"
                            THEN [state |-> outcome, error |-> err] ELSE @]

\* if (this.connectResolve) { this.connectResolve(); both = null }
FireConnectResolve(s) ==
  IF s.connectResolve # 0
  THEN [SettleConnect(s, s.connectResolve, "resolved", "")
          EXCEPT !.connectResolve = 0, !.connectReject = 0]
  ELSE s

\* FireConnectReject, had it kept the callbacks and overridden a settled promise
FireConnectRejectAgain(s, err) ==
  LET k == CHOOSE j \in DOMAIN s.connects :
             s.connects[j].state # "none" /\
             \A i \in DOMAIN s.connects : i > j => s.connects[i].state = "none"
  IN IF \E j \in DOMAIN s.connects : s.connects[j].state # "none"
     THEN [s EXCEPT !.timers = ClearTimeout(@, ConnectTimer(k)),
                    !.connects[k] = [state |-> "rejected", error |-> err]]
     ELSE s

\* if (this.connectReject) { this.connectReject(err); both = null }
FireConnectReject(s, err) ==
  IF s.connectReject # 0
  THEN [SettleConnect(s, s.connectReject, "rejected", err)
          EXCEPT !.connectResolve = 0, !.connectReject = 0]
  ELSE s

\* pending.resolve(payload): the resolver of acceptedPromise, or the no-op put in its place
ResolvePending(s, p) ==
  IF p.armed /\ s.calls[p.call].accepted = "pending"
  THEN [s EXCEPT !.calls[p.call].accepted = "resolved"]
  ELSE s

\* RejectPending, had the error not carried the message it was given
RejectPendingWithoutMessage(s, p, msg) ==
  IF p.armed /\ s.calls[p.call].accepted = "pending"
  THEN [s EXCEPT !.calls[p.call].accepted = "rejected", !.calls[p.call].acceptErr = RequestFailed]
  ELSE s

\* pending.reject(new Error(msg))
RejectPending(s, p, msg) ==
  IF p.armed /\ s.calls[p.call].accepted = "pending"
  THEN [s EXCEPT !.calls[p.call].accepted = "rejected", !.calls[p.call].acceptErr = msg]
  ELSE s

\* if (this.agentCompletionResolve) { this.agentCompletionResolve(text); it = null }
FireAgentCompletion(s, text) ==
  IF s.agentCompletionResolve # 0
  THEN LET c == s.agentCompletionResolve IN
       [s EXCEPT !.agentCompletionResolve = 0,
                 !.calls[c] = IF @.completed THEN @
                              ELSE [@ EXCEPT !.completed = TRUE, !.completionText = text]]
  ELSE s

\* send(message): written only when this.ws is an open socket
Send(s, req) ==
  IF s.ws # 0 /\ ReadyState(s.sockets[s.ws]) = "OPEN"
  THEN [s EXCEPT !.sent = @ \cup {[req EXCEPT !.socket = s.ws]}]
  ELSE s

(* ------------------- sendMessage after its first await ----------------- *)
\* the continuation behind `await acceptedPromise`
Resume(s, c) ==
  LET call == s.calls[c] IN
  IF call.pc # "awaitAccept" THEN s
  ELSE IF call.accepted = "resolved"
  THEN [s EXCEPT !.calls[c].pc = "race",
                 !.calls[c].fallback = s.lifecycleEndPromise,
                 !.timers = SetTimeout(@, LifecycleTimer(c), Ticks(AgentLifecycleTimeoutMs))]
  ELSE IF call.accepted = "rejected"
  THEN [s EXCEPT !.calls[c].pc = "rejected", !.calls[c].error = call.acceptErr]
  ELSE s

\* Race, had sendMessage not deleted the record of the call after the race
RaceKeepingRecord(s, c) ==
  LET call == s.calls[c] IN
  IF call.pc # "race" THEN s
  ELSE IF call.completed
  THEN [s EXCEPT !.calls[c].pc = "resolved", !.calls[c].result = call.completionText,
                 !.agentCompletionResolve = 0]
  ELSE IF s.calls[call.fallback].lifecycleEnd
  THEN [s EXCEPT !.calls[c].pc = "resolved",
                 !.calls[c].result = OrElse(JoinWith(s.streamBuffer, ""), NoResponseTextCaptured),
                 !.agentCompletionResolve = 0]
  ELSE IF call.timedOut
  THEN [s EXCEPT !.calls[c].pc = "rejected", !.calls[c].error = AgentLifecycleTimeout]
  ELSE s

\* Promise.race([agentCompletionPromise, lifecycleFallback, timeoutPromise]) and what follows it
Race(s, c) ==
  LET call == s.calls[c] IN
  IF call.pc # "race" THEN s
  ELSE IF call.completed
  THEN [s EXCEPT !.calls[c].pc = "resolved", !.calls[c].result = call.completionText,
                 !.pendingRequests = Remove(@, call.id), !.agentCompletionResolve = 0]
  ELSE IF s.calls[call.fallback].lifecycleEnd
  THEN [s EXCEPT !.calls[c].pc = "resolved",
                 !.calls[c].result = OrElse(JoinWith(s.streamBuffer, ""), NoResponseTextCaptured),
                 !.pendingRequests = Remove(@, call.id), !.agentCompletionResolve = 0]
  ELSE IF call.timedOut
  THEN [s EXCEPT !.calls[c].pc = "rejected", !.calls[c].error = AgentLifecycleTimeout]
  ELSE s

\* The code clears neither timer of a call.  Once the call has settled, the callback
\* of its hard timeout does nothing if the id has left the map, and a rejection of
\* timeoutPromise is ignored by the settled race: the model drops such timers instead
\* of counting them down.
CollectTimers(s) ==
  LET dead == {t \in DOMAIN s.timers :
                 \/ /\ t.kind = "request" /\ Settled(s.calls[t.of])
                    /\ s.calls[t.of].id \notin DOMAIN s.pendingRequests
                 \/ t.kind = "lifecycle" /\ Settled(s.calls[t.of])}
  IN [s EXCEPT !.timers = RemoveAll(@, dead)]

\* the promise reactions that are runnable, run to the end
RECURSIVE DrainFrom(_, _)
DrainFrom(s, c) == IF c > MaxCalls THEN s ELSE DrainFrom(Race(Resume(s, c), c), c + 1)
Drain(s) == CollectTimers(DrainFrom(s, 1))
Runnable(s) == DrainFrom(s, 1) # s

(* ---------------------------- handleResponse -------------------------- *)
\* response.error ? (its message) : fallback
ErrorOr(r, fallback) == OrElse(r.error, fallback)

\* JSON.stringify(response.payload), as far as the payloads of the model differ
PayloadJson(p) == "{" \o p.type \o "," \o p.status \o "," \o p.summary \o "," \o p.error \o "}"

\* HandleConnectResponse, had it dropped the server's words from the error
HandleConnectResponseWithoutReason(s, r) ==
  LET s1 == [s EXCEPT !.connectRequestId = 0] IN
  IF r.ok /\ r.payload.type = "hello-ok"
  THEN FireConnectResolve(s1)
  ELSE FireConnectReject(s1, ConnectRejectedPrefix)

\* the handshake response: hello-ok or a rejection
HandleConnectResponse(s, r) ==
  LET s1 == [s EXCEPT !.connectRequestId = 0] IN
  IF r.ok /\ r.payload.type = "hello-ok"
  THEN FireConnectResolve(s1)
  ELSE FireConnectReject(s1, ConnectRejectedPrefix \o ErrorOr(r, PayloadJson(r.payload)))

\* ResultText, had the summary been preferred to the texts of the result
ResultTextSummaryFirst(payload) ==
  LET fromResult == JoinWith(FilterNonEmpty(payload.result), "\n")
      withSummary == OrElse(payload.summary, fromResult)
  IN OrElse(withSummary, payload.error)

\* the text of a completion payload: result.payloads[].text, else summary, else error
ResultText(payload) ==
  LET fromResult == JoinWith(FilterNonEmpty(payload.result), "\n")
      withSummary == OrElse(fromResult, payload.summary)
  IN OrElse(withSummary, payload.error)

\* the text of a payload with status "error"
ErrText(payload) ==
  IF payload.error # "" THEN payload.error ELSE OrElse(payload.summary, UnknownError)

\* HandlePendingResponse, had the "accepted" response taken the record from the map
HandlePendingResponseDroppingRecord(s, r) ==
  LET pending == s.pendingRequests[r.id]
      removed == [s EXCEPT !.pendingRequests = Remove(@, r.id)]
  IN
  IF ~r.ok
  THEN LET msg == ErrorOr(r, RequestFailed)
           s1 == IF pending.keepAlive THEN FireAgentCompletion(removed, ErrorPrefix \o msg)
                 ELSE removed
       IN RejectPending(s1, pending, msg)
  ELSE IF pending.keepAlive
  THEN IF r.payload.status = "accepted"
       THEN ResolvePending(removed, pending)
       ELSE IF r.payload.status = "error"
       THEN FireAgentCompletion(removed, ErrorPrefix \o ErrText(r.payload))
       ELSE FireAgentCompletion(removed,
              OrElse(JoinWith(s.streamBuffer, ""), OrElse(ResultText(r.payload), EmptyResponse)))
  ELSE ResolvePending(removed, pending)

\* a response on the id of a record of pendingRequests
HandlePendingResponse(s, r) ==
  LET pending == s.pendingRequests[r.id]
      removed == [s EXCEPT !.pendingRequests = Remove(@, r.id)]
  IN
  IF ~r.ok
  THEN LET msg == ErrorOr(r, RequestFailed)
           s1 == IF pending.keepAlive THEN FireAgentCompletion(removed, ErrorPrefix \o msg)
                 ELSE removed
       IN RejectPending(s1, pending, msg)
  ELSE IF pending.keepAlive
  THEN IF r.payload.status = "accepted"
       THEN [ResolvePending(s, pending) EXCEPT !.pendingRequests[r.id].armed = FALSE]
       ELSE IF r.payload.status = "error"
       THEN FireAgentCompletion(removed, ErrorPrefix \o ErrText(r.payload))
       ELSE FireAgentCompletion(removed,
              OrElse(JoinWith(s.streamBuffer, ""), OrElse(ResultText(r.payload), EmptyResponse)))
  ELSE ResolvePending(removed, pending)

\* HandleResponse, had the handshake response been looked up in pendingRequests
HandleResponsePendingOnly(s, r) ==
  IF r.id \in DOMAIN s.pendingRequests
  THEN HandlePendingResponse(s, r)
  ELSE s

HandleResponse(s, r) ==
  IF s.connectRequestId # 0 /\ r.id = s.connectRequestId
  THEN HandleConnectResponse(s, r)
  ELSE IF r.id \in DOMAIN s.pendingRequests
  THEN HandlePendingResponse(s, r)
  ELSE s

\* NextId, had the counter stopped at the first id
NextIdReusing(s) == IF s.requestId = 0 THEN 1 ELSE s.requestId

(* ------------------------------ handleEvent --------------------------- *)
NextId(s) == s.requestId + 1

\* HandleChallenge, had it taken the current value of the counter for the request
HandleChallengeKeepingId(s, e) ==
  LET connectId == IF s.requestId = 0 THEN 1 ELSE s.requestId
      s1 == [s EXCEPT !.requestId = connectId, !.connectRequestId = connectId]
  IN Send(s1, [socket |-> 0, id |-> connectId, method |-> "connect", nonce |-> e.nonce])

HandleChallenge(s, e) ==
  LET connectId == NextId(s)
      s1 == [s EXCEPT !.requestId = connectId, !.connectRequestId = connectId]
  IN Send(s1, [socket |-> 0, id |-> connectId, method |-> "connect", nonce |-> e.nonce])

HandleEvent(s, e) ==
  IF e.event = "connect.challenge" THEN HandleChallenge(s, e)
  ELSE
    LET s1 == IF e.event = "agent" /\ e.stream = "assistant" /\ e.text # ""
              THEN [s EXCEPT !.streamBuffer = Append(@, e.text)]
              ELSE s
    IN IF e.event = "lifecycle" /\ e.state = "end" /\ s1.lifecycleEndResolve # 0
       THEN [s1 EXCEPT !.calls[s1.lifecycleEndResolve].lifecycleEnd = TRUE,
                       !.lifecycleEndResolve = 0]
       ELSE s1

\* HandleMessage, had a frame that is no response and no event reset the stream
HandleMessageResetting(s, m) ==
  IF m.type = "res" THEN HandleResponse(s, m)
  ELSE IF m.type = "event" THEN HandleEvent(s, m)
  ELSE [s EXCEPT !.streamBuffer = <<>>]

(* ----------------------------- handleMessage -------------------------- *)
HandleMessage(s, m) ==
  IF m.type = "res" THEN HandleResponse(s, m)
  ELSE IF m.type = "event" THEN HandleEvent(s, m)
  ELSE s

(* -------------------------------- the API ----------------------------- *)
\* connect(timeoutMs): the k-th invocation
ConnectBody(s, k, ticks) ==
  [s EXCEPT !.connectResolve = k, !.connectReject = k,
            !.timers = SetTimeout(@, ConnectTimer(k), ticks),
            !.connects[k] = [state |-> "pending", error |-> ""],
            !.sockets[k] = "CONNECTING",
            !.ws = k]

\* SendMessageBody, had it not emptied the stream buffer
SendMessageKeepingBuffer(s, c) ==
  IF s.ws = 0
  THEN [s EXCEPT !.calls[c].pc = "rejected", !.calls[c].error = NotConnected]
  ELSE
    LET id == NextId(s)
        s1 == [s EXCEPT !.lifecycleEndPromise = c, !.lifecycleEndResolve = c,
                        !.agentCompletionResolve = c,
                        !.requestId = id,
                        !.pendingRequests =
                           Put(@, id, [keepAlive |-> TRUE, armed |-> TRUE, call |-> c]),
                        !.timers = SetTimeout(@, RequestTimer(c), Ticks(AgentRequestTimeoutMs)),
                        !.calls[c].pc = "awaitAccept", !.calls[c].id = id]
    IN Send(s1, [socket |-> 0, id |-> id, method |-> "agent", nonce |-> ""])

\* SendMessageBody, had it prepared the call before it looked for a connection
SendMessageCheckingLate(s, c) ==
  LET id == NextId(s)
      s1 == [s EXCEPT !.lifecycleEndPromise = c, !.lifecycleEndResolve = c,
                      !.streamBuffer = <<>>,
                      !.agentCompletionResolve = c,
                      !.requestId = id]
  IN IF s.ws = 0
     THEN [s1 EXCEPT !.calls[c].pc = "rejected", !.calls[c].error = NotConnected]
     ELSE Send([s1 EXCEPT !.pendingRequests =
                             Put(@, id, [keepAlive |-> TRUE, armed |-> TRUE, call |-> c]),
                          !.timers = SetTimeout(@, RequestTimer(c), Ticks(AgentRequestTimeoutMs)),
                          !.calls[c].pc = "awaitAccept", !.calls[c].id = id],
               [socket |-> 0, id |-> id, method |-> "agent", nonce |-> ""])

\* sendMessage(text, sessionKey) up to its first await: the c-th invocation
SendMessageBody(s, c) ==
  IF s.ws = 0
  THEN [s EXCEPT !.calls[c].pc = "rejected", !.calls[c].error = NotConnected]
  ELSE
    LET id == NextId(s)
        s1 == [s EXCEPT !.lifecycleEndPromise = c, !.lifecycleEndResolve = c,
                        !.streamBuffer = <<>>,
                        !.agentCompletionResolve = c,
                        !.requestId = id,
                        !.pendingRequests =
                           Put(@, id, [keepAlive |-> TRUE, armed |-> TRUE, call |-> c]),
                        !.timers = SetTimeout(@, RequestTimer(c), Ticks(AgentRequestTimeoutMs)),
                        !.calls[c].pc = "awaitAccept", !.calls[c].id = id]
    IN Send(s1, [socket |-> 0, id |-> id, method |-> "agent", nonce |-> ""])

\* ws.close() of the library, on the state of the socket
CloseSocket(st) ==
  CASE st = "CONNECTING" -> "ABORTING"    \* the handshake is aborted: 'error', then 'close'
    [] st = "OPEN" -> "CLOSING"
    [] OTHER -> st

\* DisconnectBody, had it kept the reference to the socket it closes
DisconnectKeepingSocket(s) ==
  IF s.ws # 0
  THEN [s EXCEPT !.sockets[s.ws] = CloseSocket(@)]
  ELSE s

\* disconnect()
DisconnectBody(s) ==
  IF s.ws # 0
  THEN [s EXCEPT !.sockets[s.ws] = CloseSocket(@), !.ws = 0]
  ELSE s

(* --------------------------- timer callbacks -------------------------- *)
\* ConnectTimeoutBody, had it let a handshake go on once the socket has opened
ConnectTimeoutUnlessOpen(s, k) ==
  IF s.sockets[k] = "OPEN"
  THEN [s EXCEPT !.timers = ClearTimeout(@, ConnectTimer(k))]
  ELSE FireConnectReject([s EXCEPT !.timers = ClearTimeout(@, ConnectTimer(k))],
                         ConnectHandshakeTimeout)

\* the callback of the handshake timer of connect() number k
ConnectTimeoutBody(s, k) ==
  FireConnectReject([s EXCEPT !.timers = ClearTimeout(@, ConnectTimer(k))],
                    ConnectHandshakeTimeout)

\* RequestTimeoutBody, had it rejected the call and left its record in the map
RequestTimeoutKeepingRecord(s, c) ==
  LET id == s.calls[c].id
      s1 == [s EXCEPT !.timers = ClearTimeout(@, RequestTimer(c))]
  IN IF id \in DOMAIN s1.pendingRequests /\ s1.calls[c].accepted = "pending"
     THEN [s1 EXCEPT !.calls[c].accepted = "rejected",
                     !.calls[c].acceptErr = AgentRequestTimeout]
     ELSE s1

\* RequestTimeoutBody, had it left alone the record of a call that was accepted
RequestTimeoutSparingAccepted(s, c) ==
  LET id == s.calls[c].id
      s1 == [s EXCEPT !.timers = ClearTimeout(@, RequestTimer(c))]
  IN IF id \in DOMAIN s1.pendingRequests /\ s1.calls[c].accepted = "pending"
     THEN [s1 EXCEPT !.pendingRequests = Remove(@, id),
                     !.calls[c].accepted = "rejected",
                     !.calls[c].acceptErr = AgentRequestTimeout]
     ELSE s1

\* the callback of the hard timeout of call c
RequestTimeoutBody(s, c) ==
  LET id == s.calls[c].id
      s1 == [s EXCEPT !.timers = ClearTimeout(@, RequestTimer(c))]
  IN IF id \in DOMAIN s1.pendingRequests
     THEN LET s2 == [s1 EXCEPT !.pendingRequests = Remove(@, id)] IN
          IF s2.calls[c].accepted = "pending"
          THEN [s2 EXCEPT !.calls[c].accepted = "rejected",
                          !.calls[c].acceptErr = AgentRequestTimeout]
          ELSE s2
     ELSE s1

\* the callback of the timer behind timeoutPromise of call c
LifecycleTimeoutBody(s, c) ==
  [s EXCEPT !.timers = ClearTimeout(@, LifecycleTimer(c)), !.calls[c].timedOut = TRUE]

(* ---------------------------- socket handlers ------------------------- *)
\* ws.on('error')
OnError(s) == FireConnectReject(s, SocketFailure)
\* OnClose, had the closure of the socket been left to the handshake timer
OnCloseIgnored(s) == s
\* ws.on('close')
OnClose(s) == FireConnectReject(s, ClosedDuringHandshake)

(* ------------------- what the properties observe --------------------- *)
Ceiling == Ticks(AgentRequestTimeoutMs)

\* m is a response on the id of call c
ResponseTo(m, c) == m.type = "res" /\ m.id = calls[c].id
\* m is a response that ends the run of call c: neither a rejection nor the acceptance
CompletionOf(m, c) ==
  ResponseTo(m, c) /\ m.ok /\ m.payload.status \notin {"accepted", "error"}
\* m is a response that reports an error on the id of call c
ErrorOf(m, c) == ResponseTo(m, c) /\ (~m.ok \/ m.payload.status = "error")
LifecycleEnd(m) == m.type = "event" /\ m.event = "lifecycle" /\ m.state = "end"
\* call c has been accepted, waits for its completion, and nothing has decided it yet
Undecided(c) ==
  /\ calls[c].pc = "race"
  /\ ~calls[c].completed
  /\ ~calls[calls[c].fallback].lifecycleEnd
  /\ ~calls[c].timedOut
RecordOf(c) == calls[c].id \in DOMAIN pendingRequests

\* the text a completion payload stands for: the non-empty texts of its result, one
\* per line; without any, its summary; without that, its error; else the placeholder
C3_TextOf(p) ==
  IF FilterNonEmpty(p.result) # <<>> THEN JoinWith(FilterNonEmpty(p.result), "\n")
  ELSE IF p.summary # "" THEN p.summary
  ELSE IF p.error # "" THEN p.error
  ELSE EmptyResponse

\* the text an error response stands for
C5_TextOf(m) ==
  IF ~m.ok THEN ErrorPrefix \o (IF m.error # "" THEN m.error ELSE RequestFailed)
  ELSE ErrorPrefix \o (IF m.payload.error # "" THEN m.payload.error
                       ELSE IF m.payload.summary # "" THEN m.payload.summary
                       ELSE UnknownError)

NoAnswer == [kind |-> "", text |-> ""]
NotObserved == [waited |-> 0, heard |-> <<>>, answer |-> NoAnswer]

\* the fragments of a sequence, one after the other
RECURSIVE C4_Concat(_)
C4_Concat(frs) == IF frs = <<>> THEN "" ELSE frs[1] \o C4_Concat(Tail(frs))

\* The first response that should decide call c, with the text the call should
\* resolve with: a completion that reaches an accepted call which has heard nothing
\* ("completion") or which has heard fragments ("streamed"), or an error that reaches
\* an accepted call.
AnswerOf(m, c) ==
  IF Undecided(c) /\ CompletionOf(m, c) /\ observed[c].heard = <<>>
  THEN [kind |-> "completion", text |-> C3_TextOf(m.payload)]
  ELSE IF Undecided(c) /\ CompletionOf(m, c)
  THEN [kind |-> "streamed", text |-> C4_Concat(observed[c].heard)]
  ELSE IF Undecided(c) /\ ErrorOf(m, c)
  THEN [kind |-> "error", text |-> C5_TextOf(m)]
  ELSE NoAnswer

IsFragment(m) ==
  m.type = "event" /\ m.event = "agent" /\ m.stream = "assistant" /\ m.text # ""

ObserveMessage(m) ==
  [c \in CallIds |->
     LET o == observed[c]
         o1 == IF Suspended(calls[c]) /\ IsFragment(m)
               THEN [o EXCEPT !.heard = Append(@, m.text)] ELSE o
     IN IF o.answer = NoAnswer /\ m.type = "res"
        THEN [o1 EXCEPT !.answer = AnswerOf(m, c)] ELSE o1]

\* m, arriving on socket k, is the server's hello-ok to the connect request that the
\* client wrote to socket k after a challenge, while connect() number k is pending
Welcomes(m, k) ==
  /\ connects[k].state = "pending"
  /\ m.type = "res" /\ m.ok /\ m.payload.type = "hello-ok"
  /\ m.id = connectRequestId
  /\ \E q \in sent : q.method = "connect" /\ q.id = m.id /\ q.socket = k

\* m, arriving on socket k, is the server's answer to the connect request that the
\* client wrote to socket k, while connect() number k is pending
AnswersConnect(m, k) ==
  /\ connects[k].state = "pending"
  /\ m.type = "res" /\ m.id = connectRequestId
  /\ \E q \in sent : q.method = "connect" /\ q.id = m.id /\ q.socket = k

\* the error connect() should reject with when the server refuses with these words
C11_ErrorOf(reason) == ConnectRejectedPrefix \o reason

\* hello: the protocol version of the hello-ok that answered the connect request (-1:
\* none did); refusal: the error that a refusal of the server calls for ("": none);
\* expired: the handshake deadline passed while connect() was pending
NoHandshake == [hello |-> -1, refusal |-> "", expired |-> FALSE]

\* m is a successful hello on the id of the connect request, while connect() number k
\* is pending
HelloTo(m, k) ==
  /\ connects[k].state = "pending"
  /\ m.type = "res" /\ m.id = connectRequestId
  /\ m.ok /\ m.payload.type = "hello-ok"

ObserveHandshake(m, k) ==
  IF HelloTo(m, k)
  THEN [handshakes EXCEPT ![k].hello = m.payload.protocol]
  ELSE IF AnswersConnect(m, k) /\ ~m.ok /\ m.error # ""
  THEN [handshakes EXCEPT ![k].refusal = C11_ErrorOf(m.error)]
  ELSE handshakes

ObserveDeadline(k) ==
  IF connects[k].state = "pending" THEN [handshakes EXCEPT ![k].expired = TRUE]
  ELSE handshakes

\* the properties of calls made one after the other observe nothing of each call
Observing == caller # "series"

\* the ticks counted for a suspended call stop here
MaxWaited == Ticks(AgentRequestTimeoutMs) + Ticks(AgentLifecycleTimeoutMs) + 1

ObserveTick ==
  [c \in CallIds |->
     IF Suspended(calls[c]) /\ observed[c].waited < MaxWaited
     THEN [observed[c] EXCEPT !.waited = @ + 1]
     ELSE observed[c]]

(* ------------------------------- actions ------------------------------ *)
InitClient ==
  /\ ws = 0
  /\ sockets = [k \in ConnIds |-> "NONE"]
  /\ requestId = 0
  /\ pendingRequests = EmptyMap
  /\ streamBuffer = <<>>
  /\ lifecycleEndPromise = 0
  /\ lifecycleEndResolve = 0
  /\ agentCompletionResolve = 0
  /\ connectResolve = 0
  /\ connectReject = 0
  /\ connectRequestId = 0
  /\ connects = [k \in ConnIds |-> NoConnect]
  /\ calls = [c \in CallIds |-> NoCall]
  /\ timers = EmptyMap
  /\ sent = {}
  /\ challenges = 0
  /\ batch = 0
  /\ observed = [c \in CallIds |-> NotObserved]
  /\ greeted = {}
  /\ handshakes = [k \in ConnIds |-> NoHandshake]

\* nothing of the action but the client is under way
NoArguments == <<>>
NoRun == [ref |-> "", pc |-> "none", from |-> ""]
StopIds == 1..MaxStops
NoGateway ==
  [recorded |-> FALSE, child |-> "none", exitListeners |-> {}, stopTimers |-> EmptyMap,
   stops |-> [i \in StopIds |-> [state |-> "none", by |-> ""]], signals |-> <<>>]
NoMain ==
  [pc |-> "none", client |-> FALSE, disconnected |-> FALSE, stop |-> 0, failed |-> FALSE,
   hardTimeout |-> 0]
InitAction ==
  /\ given = NoArguments
  /\ returned = EmptyMap
  /\ actionsCache = <<>>
  /\ gateway = NoGateway
  /\ main = NoMain
  /\ workspace = NoRun

\* run() of the action: connect, then one message, then disconnect, each awaited
Init == InitClient /\ InitAction /\ caller = "run"
\* a caller that invokes the three operations at any moment
InitAny == InitClient /\ InitAction /\ caller = "any"
\* a caller with several sendMessage() calls in flight
InitOverlap == InitClient /\ InitAction /\ caller = "overlap"
\* a caller that makes its calls one after the other
InitSeries == InitClient /\ InitAction /\ caller = "series"
\* a caller that connects the same client again
InitReconnect == InitClient /\ InitAction /\ caller = "reconnect"
\* a caller that only connects and disconnects
InitHandshake == InitClient /\ InitAction /\ caller = "handshake"

ConnectPending == \E k \in ConnIds : connects[k].state = "pending"
CallSuspended == \E c \in CallIds : Suspended(calls[c])
NeverConnected == \A k \in ConnIds : connects[k].state = "none"
NeverCalled == \A c \in CallIds : calls[c].pc = "none"
\* The callers.  "run" is run() of the action: one connect(), one sendMessage(), then
\* disconnect(), each awaited.  "any" makes the same calls at any moment.  "overlap"
\* awaits its connect() and then has several sendMessage() calls in flight at once.
\* "reconnect" awaits every call and calls connect() again on the same client.
\* "series" awaits every call and sends one message after the other.
\* "handshake" awaits connect() and disconnect(), connects again, and sends no message.
Awaits == caller \in {"run", "reconnect", "series", "handshake"}
\* what the caller has awaited, and the calls it has left, before it goes on
MayConnect ==
  /\ Awaits => ~ConnectPending /\ ~CallSuspended
  /\ caller = "overlap" => ~ConnectPending /\ NeverCalled
  /\ caller \notin {"reconnect", "handshake"} => NeverConnected
MaySend ==
  /\ Awaits => /\ ws # 0 /\ connects[ws].state = "resolved"
               /\ ~ConnectPending /\ ~CallSuspended
  /\ caller = "overlap" => ws # 0 /\ connects[ws].state = "resolved"
  /\ caller \notin {"overlap", "series"} => NeverCalled
MayDisconnect ==
  /\ Awaits => ws # 0 /\ ~ConnectPending /\ ~CallSuspended
  /\ caller = "overlap" => ws # 0 /\ ~NeverCalled /\ ~CallSuspended
  /\ caller = "series" => \A c \in CallIds : Settled(calls[c])

\* connect(timeoutMs)
Connect(ms) ==
  /\ batch = 0
  /\ MayConnect
  /\ \E k \in ConnIds :
       /\ connects[k].state = "none"
       /\ \A j \in ConnIds : j < k => connects[j].state # "none"
       /\ Commit(ConnectBody(This, k, Ticks(ms)))
  /\ UNCHANGED <<challenges, batch, harness, observed, greeted, handshakes>>

\* sendMessage(text, sessionKey)
SendMessage ==
  /\ batch = 0
  /\ MaySend
  /\ \E c \in CallIds :
       /\ calls[c].pc = "none"
       /\ \A d \in CallIds : d < c => calls[d].pc # "none"
       /\ Commit(Drain(SendMessageBody(This, c)))
  /\ UNCHANGED <<challenges, batch, harness, observed, greeted, handshakes>>

\* disconnect()
Disconnect ==
  /\ batch = 0
  /\ MayDisconnect
  /\ Commit(DisconnectBody(This))
  /\ UNCHANGED <<challenges, batch, harness, observed, greeted, handshakes>>

\* the socket of connect() number k opens
SocketOpen(k) ==
  /\ batch = 0
  /\ sockets[k] = "CONNECTING"
  /\ sockets' = [sockets EXCEPT ![k] = "OPEN"]
  /\ UNCHANGED <<ws, requestId, pendingRequests, streamBuffer, lifecycleEndPromise,
                 lifecycleEndResolve, agentCompletionResolve, connectResolve, connectReject,
                 connectRequestId, connects, calls, timers, sent, challenges, batch, harness,
                 observed, greeted, handshakes>>

\* socket k emits 'error'
SocketError(k) ==
  /\ batch = 0
  /\ sockets[k] \in {"CONNECTING", "OPEN", "ABORTING"}
  /\ Commit(OnError([This EXCEPT !.sockets[k] = "ERRORED"]))
  /\ UNCHANGED <<challenges, batch, harness, observed, greeted, handshakes>>

\* socket k emits 'close'
SocketClose(k) ==
  /\ batch = 0
  /\ sockets[k] \in {"OPEN", "CLOSING", "ERRORED"}
  /\ Commit(OnClose([This EXCEPT !.sockets[k] = "CLOSED"]))
  /\ UNCHANGED <<challenges, batch, harness, observed, greeted, handshakes>>

\* m is an event of an agent run, which the server started when it accepted a call
\* a server challenges each connection of the handshake caller
ChallengeLimit == IF caller = "handshake" THEN MaxConnects ELSE MaxChallenges
OfRun(m) == caller = "series" /\ m.type = "event" /\ m.event \in {"agent", "lifecycle"}

\* socket k emits 'message'; the promise reactions it makes runnable run after the
\* last message of the chunk
Deliver(k, m) ==
  /\ batch \in {0, k}
  /\ sockets[k] \in {"OPEN", "CLOSING"}
  /\ m.type = "event" /\ m.event = "connect.challenge" => challenges < ChallengeLimit
  /\ OfRun(m) => calls[m.run].accepted = "resolved"
  /\ OfRun(m) /\ LifecycleEnd(m) => ~calls[m.run].lifecycleEnd
  /\ m.type = "event" /\ m.event = "agent" => Len(streamBuffer) < MaxFragments
  /\ LET s == HandleMessage(This, m) IN
       /\ Commit(s)
       /\ batch' = IF Runnable(s) THEN k ELSE 0
  /\ challenges' = IF m.type = "event" /\ m.event = "connect.challenge"
                   THEN challenges + 1 ELSE challenges
  /\ observed' = IF Observing THEN ObserveMessage(m) ELSE observed
  /\ greeted' = IF Welcomes(m, k) THEN greeted \cup {k} ELSE greeted
  /\ handshakes' = ObserveHandshake(m, k)
  /\ UNCHANGED harness

\* the chunk is done: the runnable promise reactions run
RunMicrotasks ==
  /\ batch # 0
  /\ Commit(Drain(This))
  /\ batch' = 0
  /\ UNCHANGED <<challenges, harness, observed, greeted, handshakes>>

\* time passes, unless a timer is due
Tick ==
  /\ batch = 0
  /\ \A t \in DOMAIN timers : timers[t] > 0
  /\ timers' = [t \in DOMAIN timers |-> timers[t] - 1]
  /\ observed' = IF Observing THEN ObserveTick ELSE observed
  /\ UNCHANGED <<ws, sockets, requestId, pendingRequests, streamBuffer, lifecycleEndPromise,
                 lifecycleEndResolve, agentCompletionResolve, connectResolve, connectReject,
                 connectRequestId, connects, calls, sent, challenges, batch, harness,
                 greeted, handshakes>>

ConnectTimeout(k) ==
  /\ batch = 0
  /\ Due(ConnectTimer(k))
  /\ Commit(ConnectTimeoutBody(This, k))
  /\ handshakes' = ObserveDeadline(k)
  /\ UNCHANGED <<challenges, batch, harness, observed, greeted>>

RequestTimeout(c) ==
  /\ batch = 0
  /\ Due(RequestTimer(c))
  /\ Commit(Drain(RequestTimeoutBody(This, c)))
  /\ UNCHANGED <<challenges, batch, harness, observed, greeted, handshakes>>

\* timers of one duration fire in the order they were armed: the hard timeout first
LifecycleTimeout(c) ==
  /\ batch = 0
  /\ Due(LifecycleTimer(c))
  /\ RequestTimer(c) \notin DOMAIN timers
  /\ Commit(Drain(LifecycleTimeoutBody(This, c)))
  /\ UNCHANGED <<challenges, batch, harness, observed, greeted, handshakes>>

\* what the server may send next
Inbound ==
  CASE caller = "run" -> Messages(1..requestId)
    [] caller = "overlap" -> OverlapMessages(1..requestId)
    [] caller = "any" -> PlainMessages(1..requestId) \cup HelloResponses(1..requestId)
    [] caller = "series" -> SeriesMessages(1..requestId)
    [] OTHER -> PlainMessages(1..requestId)

Timeout ==
  \/ \E k \in ConnIds : ConnectTimeout(k)
  \/ \E c \in CallIds : RequestTimeout(c)
  \/ \E c \in CallIds : LifecycleTimeout(c)

Next ==
  \/ \E ms \in ConnectTimeoutsMs : Connect(ms)
  \/ SendMessage
  \/ Disconnect
  \/ \E k \in ConnIds : SocketOpen(k)
  \/ \E k \in ConnIds : SocketError(k)
  \/ \E k \in ConnIds : SocketClose(k)
  \/ \E k \in ConnIds : \E m \in Inbound : Deliver(k, m)
  \/ RunMicrotasks
  \/ Tick
  \/ Timeout

Spec == Init /\ [][Next]_vars
AnySpec == InitAny /\ [][Next]_vars
OverlapSpec == InitOverlap /\ [][Next]_vars
ReconnectSpec == InitReconnect /\ [][Next]_vars
SeriesSpec == InitSeries /\ [][Next]_vars

\* timers fire, time passes, and the event loop runs the runnable promise reactions
FairSpec ==
  Spec /\ WF_vars(Tick) /\ WF_vars(Timeout) /\ WF_vars(RunMicrotasks)

\* the handshake alone, with the timers running
NextHandshake ==
  \/ \E ms \in ConnectTimeoutsMs : Connect(ms)
  \/ Disconnect
  \/ \E k \in ConnIds : SocketOpen(k)
  \/ \E k \in ConnIds : SocketError(k)
  \/ \E k \in ConnIds : SocketClose(k)
  \/ \E k \in ConnIds : \E m \in Inbound : Deliver(k, m)
  \/ Tick
  \/ \E k \in ConnIds : ConnectTimeout(k)
HandshakeSpec ==
  /\ InitHandshake /\ [][NextHandshake]_vars
  /\ WF_vars(Tick) /\ WF_vars(\E k \in ConnIds : ConnectTimeout(k))

(* ------------------------- resolveModel (gateway.ts) ------------------- *)
\* A string is the sequence of its segments, with "/" a segment of its own.
Slash == <<"/">>
\* String.prototype.includes(seg)
Includes(str, seg) == \E i \in 1..Len(str) : str[i] = seg

\* DEFAULT_MODELS
DEFAULT_MODELS ==
  [p \in {<<"anthropic">>, <<"xai">>, <<"openai">>, <<"google">>, <<"groq">>, <<"openrouter">>} |->
     CASE p = <<"anthropic">> -> <<"anthropic", "/", "claude-sonnet-4-5">>
       [] p = <<"xai">> -> <<"xai", "/", "grok-3-fast">>
       [] p = <<"openai">> -> <<"openai", "/", "gpt-4.1-mini">>
       [] p = <<"google">> -> <<"google", "/", "gemini-2.5-flash">>
       [] p = <<"groq">> -> <<"groq", "/", "llama-3.3-70b-versatile">>
       [] OTHER -> <<"openrouter", "/", "anthropic", "/", "claude-sonnet-4-5">>]

\* ResolveModel, had it put the provider before every model name
ResolveModelAlwaysPrefixing(provider, model) ==
  IF model # <<>> THEN provider \o Slash \o model
  ELSE IF provider \in DOMAIN DEFAULT_MODELS THEN DEFAULT_MODELS[provider]
  ELSE provider \o Slash \o <<"default">>

\* resolveModel(provider, model)
ResolveModel(provider, model) ==
  IF model # <<>>
  THEN IF Includes(model, "/") THEN model ELSE provider \o Slash \o model
  ELSE IF provider \in DOMAIN DEFAULT_MODELS THEN DEFAULT_MODELS[provider]
  ELSE provider \o Slash \o <<"default">>

\* the `provider` and `model` inputs of the action
ProviderInputs == {<<"anthropic">>, <<"xai">>, <<"openrouter">>, <<"cerebras">>, <<>>}
BareModels == {<<"claude-sonnet-4-5">>, <<"grok-3-fast">>}
ModelInputs ==
  {<<>>} \cup BareModels
  \cup {p \o Slash \o m : p \in ProviderInputs, m \in BareModels}
  \cup {<<"anthropic", "/", "claude-sonnet-4-5", "/", "beta">>}

\* the model name with the provider put before it by hand
Prefixed(provider, model) == provider \o Slash \o model

InitResolve ==
  /\ InitClient
  /\ caller = "none"
  /\ given \in [provider : ProviderInputs, model : ModelInputs]
  /\ returned = EmptyMap
  /\ actionsCache = <<>>
  /\ gateway = NoGateway
  /\ main = NoMain
  /\ workspace = NoRun

\* resolveModel(provider, model), as run() and startGateway() call it
ResolveGiven ==
  /\ "given" \notin DOMAIN returned
  /\ returned' = Put(returned, "given", ResolveModel(given.provider, given.model))
  /\ UNCHANGED <<client, gateway, main, caller, given, actionsCache, workspace>>

\* resolveModel(provider, provider + "/" + model)
ResolvePrefixed ==
  /\ "prefixed" \notin DOMAIN returned
  /\ returned' = Put(returned, "prefixed",
                     ResolveModel(given.provider, Prefixed(given.provider, given.model)))
  /\ UNCHANGED <<client, gateway, main, caller, given, actionsCache, workspace>>

\* resolveModel(provider, m) with m the model it has resolved
ResolveAgain ==
  /\ "given" \in DOMAIN returned
  /\ "again" \notin DOMAIN returned
  /\ returned' = Put(returned, "again", ResolveModel(given.provider, returned["given"]))
  /\ UNCHANGED <<client, gateway, main, caller, given, actionsCache, workspace>>

NextResolve == ResolveGiven \/ ResolvePrefixed \/ ResolveAgain

ResolveSpec == InitResolve /\ [][NextResolve]_vars

(* ------------- device identity and the connect request (client.ts) ----- *)
\* A string is the sequence of its segments, with "|" and "," segments of their own.
Pipe == <<"|">>
Comma == <<",">>
CLIENT_ID == <<"gateway-client">>
CLIENT_MODE == <<"backend">>

\* an optional value: undefined or null when `some` is FALSE
None == [some |-> FALSE, val |-> <<>>]
Some(v) == [some |-> TRUE, val |-> v]
\* a ?? b
Coalesce(a, b) == IF a.some THEN a.val ELSE b
\* the truth value of an optional string
Truthy(a) == a.some /\ a.val # <<>>
\* a || null, a || undefined
OrNone(a) == IF Truthy(a) THEN a ELSE None
\* String(n)
String(n) == <<ToString(n)>>
\* Array.prototype.join(sep) on an array of strings
RECURSIVE Join(_, _)
Join(parts, sep) ==
  IF parts = <<>> THEN <<>>
  ELSE IF Len(parts) = 1 THEN parts[1]
  ELSE parts[1] \o sep \o Join(Tail(parts), sep)

\* BuildDeviceAuthPayload, had the version followed the presence of a nonce
BuildDeviceAuthPayloadIfPresent(params) ==
  LET version == IF params.nonce.some THEN <<"v2">> ELSE <<"v1">>
      scopes == Join(params.scopes, Comma)
      token == Coalesce(params.token, <<>>)
      base == <<version, params.deviceId, params.clientId, params.clientMode, params.role,
                scopes, String(params.signedAtMs), token>>
  IN Join(IF version = <<"v2">> THEN Append(base, Coalesce(params.nonce, <<>>)) ELSE base, Pipe)

BuildDeviceAuthPayload(params) ==
  LET version == IF Truthy(params.nonce) THEN <<"v2">> ELSE <<"v1">>
      scopes == Join(params.scopes, Comma)
      token == Coalesce(params.token, <<>>)
      base == <<version, params.deviceId, params.clientId, params.clientMode, params.role,
                scopes, String(params.signedAtMs), token>>
  IN Join(IF version = <<"v2">> THEN Append(base, Coalesce(params.nonce, <<>>)) ELSE base, Pipe)

\* the key pairs crypto.generateKeyPairSync may produce
KeyPairs == {"a", "b"}
\* sha256 of the raw public key, in hex
FingerprintPublicKey(publicKeyPem) == <<"sha256(" \o publicKeyPem \o ")">>
PublicKeyRawBase64UrlFromPem(publicKeyPem) == <<"raw(" \o publicKeyPem \o ")">>
\* the signature of a payload under a key stands for both
SignDevicePayload(privateKeyPem, payload) == [key |-> privateKeyPem, payload |-> payload]
GenerateDeviceIdentity(pair) ==
  [deviceId |-> FingerprintPublicKey("public-" \o pair),
   publicKeyPem |-> "public-" \o pair, privateKeyPem |-> "private-" \o pair]

\* ConnectParams, had handleEvent generated a key pair for the request
ConnectParamsFreshIdentity(deviceIdentity, gatewayToken, nonce, now) ==
  LET fresh == GenerateDeviceIdentity(IF now = 0 THEN "a" ELSE "b")
      token == Coalesce(OrNone(gatewayToken), <<>>)
      role == <<"operator">>
      scopes == << <<"operator.read">>, <<"operator.write">> >>
      signedAtMs == now
      authPayload == BuildDeviceAuthPayload(
                       [deviceId |-> fresh.deviceId, clientId |-> CLIENT_ID,
                        clientMode |-> CLIENT_MODE, role |-> role, scopes |-> scopes,
                        signedAtMs |-> signedAtMs, token |-> OrNone(Some(token)), nonce |-> nonce])
      signature == SignDevicePayload(fresh.privateKeyPem, authPayload)
  IN [minProtocol |-> PROTOCOL_VERSION, maxProtocol |-> PROTOCOL_VERSION,
      client |-> [id |-> CLIENT_ID, version |-> <<"0.2.0">>, mode |-> CLIENT_MODE],
      role |-> role, scopes |-> scopes, caps |-> <<>>,
      auth |-> [token |-> OrNone(Some(token))],
      device |-> [id |-> fresh.deviceId,
                  publicKey |-> PublicKeyRawBase64UrlFromPem(fresh.publicKeyPem),
                  signature |-> signature, signedAt |-> signedAtMs, nonce |-> nonce]]

\* ConnectParams, had the request carried the time of sending, read after the signing
ConnectParamsStampedLate(deviceIdentity, gatewayToken, nonce, now) ==
  LET token == Coalesce(OrNone(gatewayToken), <<>>)
      role == <<"operator">>
      scopes == << <<"operator.read">>, <<"operator.write">> >>
      signedAtMs == now
      authPayload == BuildDeviceAuthPayload(
                       [deviceId |-> deviceIdentity.deviceId, clientId |-> CLIENT_ID,
                        clientMode |-> CLIENT_MODE, role |-> role, scopes |-> scopes,
                        signedAtMs |-> signedAtMs, token |-> OrNone(Some(token)), nonce |-> nonce])
      signature == SignDevicePayload(deviceIdentity.privateKeyPem, authPayload)
  IN [minProtocol |-> PROTOCOL_VERSION, maxProtocol |-> PROTOCOL_VERSION,
      client |-> [id |-> CLIENT_ID, version |-> <<"0.2.0">>, mode |-> CLIENT_MODE],
      role |-> role, scopes |-> scopes, caps |-> <<>>,
      auth |-> [token |-> OrNone(Some(token))],
      device |-> [id |-> deviceIdentity.deviceId,
                  publicKey |-> PublicKeyRawBase64UrlFromPem(deviceIdentity.publicKeyPem),
                  signature |-> signature, signedAt |-> signedAtMs + 1, nonce |-> nonce]]

\* the params of the connect request handleEvent builds on a challenge with `nonce`,
\* when Date.now() is `now` and the gateway token is `gatewayToken`
ConnectParams(deviceIdentity, gatewayToken, nonce, now) ==
  LET token == Coalesce(OrNone(gatewayToken), <<>>)
      role == <<"operator">>
      scopes == << <<"operator.read">>, <<"operator.write">> >>
      signedAtMs == now
      authPayload == BuildDeviceAuthPayload(
                       [deviceId |-> deviceIdentity.deviceId, clientId |-> CLIENT_ID,
                        clientMode |-> CLIENT_MODE, role |-> role, scopes |-> scopes,
                        signedAtMs |-> signedAtMs, token |-> OrNone(Some(token)), nonce |-> nonce])
      signature == SignDevicePayload(deviceIdentity.privateKeyPem, authPayload)
  IN [minProtocol |-> PROTOCOL_VERSION, maxProtocol |-> PROTOCOL_VERSION,
      client |-> [id |-> CLIENT_ID, version |-> <<"0.2.0">>, mode |-> CLIENT_MODE],
      role |-> role, scopes |-> scopes, caps |-> <<>>,
      auth |-> [token |-> OrNone(Some(token))],
      device |-> [id |-> deviceIdentity.deviceId,
                  publicKey |-> PublicKeyRawBase64UrlFromPem(deviceIdentity.publicKeyPem),
                  signature |-> signature, signedAt |-> signedAtMs, nonce |-> nonce]]

\* what the functions are applied to
OptionalTokens == {None, Some(<<>>), Some(<<"secret">>)}
OptionalNonces == {None, Some(<<>>), Some(<<"n1">>)}
ScopeInputs == {<<>>, << <<"operator.read">> >>, << <<"operator.read">>, <<"operator.write">> >>}
Times == {0, 1700}
PayloadInputs ==
  [deviceId : {FingerprintPublicKey("public-a")}, clientId : {CLIENT_ID},
   clientMode : {CLIENT_MODE}, role : {<<"operator">>}, scopes : ScopeInputs,
   signedAtMs : Times, token : OptionalTokens, nonce : OptionalNonces]

\* where the params of the first and of the second connect request are kept
RequestKeys == <<"first", "second">>

\* new OpenClawClient(): the constructor generates the identity
InitAuth ==
  /\ InitClient
  /\ caller = "none"
  /\ given \in [deviceIdentity : {GenerateDeviceIdentity(pair) : pair \in KeyPairs},
                gatewayToken : {None, Some(<<"secret">>)}, params : PayloadInputs]
  /\ returned = EmptyMap
  /\ actionsCache = <<>>
  /\ gateway = NoGateway
  /\ main = NoMain
  /\ workspace = NoRun

\* buildDeviceAuthPayload(params)
BuildPayload ==
  /\ "payload" \notin DOMAIN returned
  /\ returned' = Put(returned, "payload", BuildDeviceAuthPayload(given.params))
  /\ UNCHANGED <<client, gateway, main, caller, given, actionsCache, workspace>>

\* handleEvent on the n-th connect.challenge: the params of the request it sends
Challenge(n, nonce, now) ==
  /\ RequestKeys[n] \notin DOMAIN returned
  /\ \A i \in 1..(n - 1) : RequestKeys[i] \in DOMAIN returned
  /\ returned' = Put(returned, RequestKeys[n],
                     ConnectParams(given.deviceIdentity, given.gatewayToken, nonce, now))
  /\ UNCHANGED <<client, gateway, main, caller, given, actionsCache, workspace>>

NextAuth ==
  \/ BuildPayload
  \/ \E n \in 1..MaxConnects : \E nonce \in OptionalNonces : \E now \in Times :
       Challenge(n, nonce, now)

AuthSpec == InitAuth /\ [][NextAuth]_vars

(* ----------------------- stopGateway (gateway.ts) ---------------------- *)
\* gateway.recorded: gatewayProcess is not null.  gateway.child: the process itself,
\* "none" before spawn, then "running", then "exited"; a spawn that fails leaves a
\* recorded child that emits no 'exit'.
ForceKillTimers == DOMAIN gateway.stopTimers

\* spawn('openclaw', ...) in startGateway()
StartGateway ==
  /\ ~gateway.recorded /\ gateway.child = "none"
  /\ \E c \in {"running", "exited"} :
       gateway' = [gateway EXCEPT !.recorded = TRUE, !.child = c]
  /\ UNCHANGED <<client, main, caller, given, returned, actionsCache, workspace>>

\* stopGateway(), the i-th call, up to the promise it returns
StopGatewayBody(g, i) ==
  IF ~g.recorded
  THEN [g EXCEPT !.stops[i] = [state |-> "resolved", by |-> "atOnce"]]
  ELSE [g EXCEPT !.exitListeners = @ \cup {i},
                 !.signals = Append(@, "SIGTERM"),
                 !.stopTimers = Put(@, i, ForceKillTicks),
                 !.stops[i] = [state |-> "pending", by |-> ""]]

\* gatewayProcess.on('exit') of the stopGateway() calls: each resolves its promise
OnExit(g) ==
  [g EXCEPT !.child = "exited",
            !.recorded = IF g.exitListeners # {} THEN FALSE ELSE @,
            !.stops = [i \in StopIds |->
                         IF i \in g.exitListeners /\ @[i].state = "pending"
                         THEN [state |-> "resolved", by |-> "exit"] ELSE @[i]]]

\* the callback of setTimeout(..., 5000) of the i-th call
ForceKillBody(g, i) ==
  LET g1 == [g EXCEPT !.stopTimers = Remove(@, i)] IN
    IF g.recorded
    THEN [g1 EXCEPT !.signals = Append(@, "SIGKILL"),
                    !.recorded = FALSE,
                    !.stops[i] = IF @.state = "pending"
                                 THEN [state |-> "resolved", by |-> "kill"] ELSE @]
    ELSE g1

\* a caller of stopGateway(): its calls may overlap
StopGateway(i) ==
  /\ gateway.stops[i].state = "none"
  /\ \A j \in StopIds : j < i => gateway.stops[j].state # "none"
  /\ gateway' = StopGatewayBody(gateway, i)
  /\ UNCHANGED <<client, main, caller, given, returned, actionsCache, workspace>>

\* the gateway process exits: of itself, or on a signal
ChildExit ==
  /\ gateway.child = "running"
  /\ gateway' = OnExit(gateway)
  /\ UNCHANGED <<client, main, caller, given, returned, actionsCache, workspace>>

ForceKill(i) ==
  /\ i \in ForceKillTimers /\ gateway.stopTimers[i] = 0
  /\ gateway' = ForceKillBody(gateway, i)
  /\ UNCHANGED <<client, main, caller, given, returned, actionsCache, workspace>>

\* time passes, unless a timer is due
GatewayTick ==
  /\ ForceKillTimers # {}
  /\ \A i \in ForceKillTimers : gateway.stopTimers[i] > 0
  /\ gateway' = [gateway EXCEPT !.stopTimers = [i \in ForceKillTimers |-> @[i] - 1]]
  /\ UNCHANGED <<client, main, caller, given, returned, actionsCache, workspace>>

InitGateway ==
  /\ InitClient
  /\ caller = "none"
  /\ given = NoArguments
  /\ returned = EmptyMap
  /\ actionsCache = <<>>
  /\ gateway = NoGateway
  /\ main = NoMain
  /\ workspace = NoRun

NextGateway ==
  \/ StartGateway
  \/ \E i \in StopIds : StopGateway(i)
  \/ ChildExit
  \/ \E i \in StopIds : ForceKill(i)
  \/ GatewayTick

\* a process that was sent SIGKILL exits
ChildKilled ==
  ChildExit /\ \E n \in DOMAIN gateway.signals : gateway.signals[n] = "SIGKILL"

\* the timers run
GatewaySpec ==
  /\ InitGateway /\ [][NextGateway]_vars
  /\ WF_vars(GatewayTick) /\ WF_vars(\E i \in StopIds : ForceKill(i))
  /\ WF_vars(ChildKilled)

(* ----------------------------- run() (index.ts) ------------------------ *)
\* main.pc: the await run() is suspended at.  main.client: `client` is not null.
\* main.stop, main.hardTimeout: the stopGateway() call of the finally block and the one
\* of the hard-timeout wrapper, 0 when not made.
NextStop == CHOOSE i \in StopIds :
              gateway.stops[i].state = "none" /\ \A j \in StopIds : j < i => gateway.stops[j].state # "none"
Goto(pc) == main' = [main EXCEPT !.pc = pc]
Throw == main' = [main EXCEPT !.pc = "catch"]
GatewayUntouched == UNCHANGED <<client, gateway, caller, given, returned, actionsCache, workspace>>

\* run() is called: inputs, installation, restoreWorkspace; any of them may throw
RunBegin ==
  /\ main.pc = "none"
  /\ Goto("startGateway") \/ Throw
  /\ GatewayUntouched

\* await startGateway(...): the spawn, then 2 s later the promise resolves, unless the
\* child emitted 'error'
RunStartGateway ==
  /\ main.pc = "startGateway"
  /\ \E c \in {"running", "exited"} :
       gateway' = [gateway EXCEPT !.recorded = TRUE, !.child = c]
  /\ Goto("waitForReady") \/ Throw
  /\ UNCHANGED <<client, caller, given, returned, actionsCache, workspace>>

\* await waitForReady(); await parseTrigger(...); client = new OpenClawClient()
RunWaitForReady ==
  /\ main.pc = "waitForReady"
  /\ main' = [main EXCEPT !.pc = "connect", !.client = TRUE] \/ Throw
  /\ GatewayUntouched

\* await client.connect()
RunConnect ==
  /\ main.pc = "connect"
  /\ Goto("sendMessage") \/ Throw
  /\ GatewayUntouched

\* response = await client.sendMessage(...): a rejection goes to the inner catch
RunSendMessage ==
  /\ main.pc = "sendMessage"
  /\ Goto("post") \/ Goto("postError")
  /\ GatewayUntouched

\* the inner catch: the error comment is posted, or fails to be; throw sendError
RunPostError ==
  /\ main.pc = "postError"
  /\ Throw
  /\ GatewayUntouched

\* posting the response: failures of the requests are caught, getOctokit may throw
RunPost ==
  /\ main.pc = "post"
  /\ Goto("saveWorkspace") \/ Throw
  /\ GatewayUntouched

\* await saveWorkspace(...)
RunSaveWorkspace ==
  /\ main.pc = "saveWorkspace"
  /\ Goto("finally") \/ Throw
  /\ GatewayUntouched

\* RunCatch, had the catch block been the end of run()
RunCatchReturning ==
  /\ main.pc = "catch"
  /\ main' = [main EXCEPT !.pc = "done", !.failed = TRUE]
  /\ GatewayUntouched

\* catch (error): core.setFailed, throw error
RunCatch ==
  /\ main.pc = "catch"
  /\ main' = [main EXCEPT !.pc = "finally", !.failed = TRUE]
  /\ GatewayUntouched

\* finally: client.disconnect() if there is a client, then stopGateway() is called
RunFinally ==
  /\ main.pc = "finally"
  /\ main' = [main EXCEPT !.pc = "stopGateway", !.disconnected = main.client,
                          !.stop = NextStop]
  /\ gateway' = StopGatewayBody(gateway, NextStop)
  /\ UNCHANGED <<client, caller, given, returned, actionsCache, workspace>>

\* await stopGateway() is over: run() finishes, by returning or by rethrowing
RunEnd ==
  /\ main.pc = "stopGateway"
  /\ gateway.stops[main.stop].state = "resolved"
  /\ Goto("done")
  /\ GatewayUntouched

\* the hard-timeout wrapper fires while run() is under way: stopGateway()
HardTimeout ==
  /\ main.pc \notin {"none", "done", "exited"} /\ main.hardTimeout = 0
  /\ main' = [main EXCEPT !.hardTimeout = NextStop]
  /\ gateway' = StopGatewayBody(gateway, NextStop)
  /\ UNCHANGED <<client, caller, given, returned, actionsCache, workspace>>

\* .finally(() => process.exit(1)) of the hard-timeout wrapper
ProcessExit ==
  /\ main.pc \notin {"done", "exited"} /\ main.hardTimeout # 0
  /\ gateway.stops[main.hardTimeout].state = "resolved"
  /\ Goto("exited")
  /\ GatewayUntouched

RunSteps ==
  \/ RunBegin \/ RunStartGateway \/ RunWaitForReady \/ RunConnect \/ RunSendMessage
  \/ RunPostError \/ RunPost \/ RunSaveWorkspace \/ RunCatch \/ RunFinally \/ RunEnd

NextRun ==
  \/ RunSteps
  \/ HardTimeout
  \/ ProcessExit
  \/ main.pc \notin {"done", "exited"} /\ ChildExit
  \/ main.pc \notin {"done", "exited"} /\ \E i \in StopIds : ForceKill(i)
  \/ main.pc \notin {"done", "exited"} /\ GatewayTick

RunSpec == InitGateway /\ [][NextRun]_vars

(* ----------------------- the workspace cache (workspace.ts) ------------ *)
\* GITHUB_REF_NAME of a run; the cache of the repository serves a run the entries
\* created on its own branch and on the default branch
RefNames == {"main", "dev", "fix"}
DefaultBranch == "main"
Repo == "owner/repo"

\* process.env.GITHUB_REF_NAME || 'main'
Branch(ref) == OrElse(ref, "main")
\* `openclaw-workspace-${repo}-${branch}`, as its segments
CacheKey(repo, branch) == <<"openclaw-workspace-", repo, "-", branch>>
\* restoreKeys: [`openclaw-workspace-${repo}-`]
RestoreKeys(repo) == {<<"openclaw-workspace-", repo, "-">>}
StartsWith(key, prefix) ==
  Len(prefix) <= Len(key) /\ SubSeq(key, 1, Len(prefix)) = prefix

\* cache.restoreCache(paths, primaryKey, restoreKeys) for a run on `ref`: the index of
\* the entry it restores, 0 without one.  The entry with the primary key if there is
\* one, else the newest entry whose key starts with a restore key.
RestoreCache(entries, ref, primaryKey, restoreKeys) ==
  LET visible == {i \in 1..Len(entries) : entries[i].scope \in {ref, DefaultBranch}}
      exact == {i \in visible : entries[i].key = primaryKey}
      partial == {i \in visible : \E p \in restoreKeys : StartsWith(entries[i].key, p)}
      Newest(is) == CHOOSE i \in is : \A j \in is : j <= i
  IN IF exact # {} THEN Newest(exact)
     ELSE IF partial # {} THEN Newest(partial)
     ELSE 0

\* cache.saveCache(paths, key) by a run on `ref`: an entry is never overwritten, the
\* call throws and saveWorkspace logs a warning
SaveCache(entries, ref, key, branch) ==
  IF \E i \in 1..Len(entries) : entries[i].key = key /\ entries[i].scope = ref
  THEN entries
  ELSE Append(entries, [key |-> key, scope |-> ref, savedOn |-> branch])

InitWorkspace ==
  /\ InitClient
  /\ caller = "none"
  /\ given = NoArguments
  /\ returned = EmptyMap
  /\ actionsCache = <<>>
  /\ gateway = NoGateway
  /\ main = NoMain
  /\ workspace = NoRun

\* restoreWorkspace(workspacePath, repo) of a run on `ref`
RestoreWorkspace(ref) ==
  /\ workspace.pc \in {"none", "saved"}
  /\ LET branch == Branch(ref)
         hit == RestoreCache(actionsCache, ref, CacheKey(Repo, branch), RestoreKeys(Repo))
     IN workspace' = [ref |-> ref, pc |-> "restored",
                      from |-> IF hit = 0 THEN "" ELSE actionsCache[hit].savedOn]
  /\ UNCHANGED <<client, gateway, main, caller, given, returned, actionsCache>>

\* saveWorkspace(workspacePath, repo) of the run under way
SaveWorkspace ==
  /\ workspace.pc = "restored"
  /\ LET branch == Branch(workspace.ref)
     IN actionsCache' = SaveCache(actionsCache, workspace.ref, CacheKey(Repo, branch), branch)
  /\ workspace' = [workspace EXCEPT !.pc = "saved"]
  /\ UNCHANGED <<client, gateway, main, caller, given, returned>>

\* the cache service drops an entry that was not used for seven days
Evict(i) ==
  /\ i \in 1..Len(actionsCache)
  /\ actionsCache' = SubSeq(actionsCache, 1, i - 1) \o SubSeq(actionsCache, i + 1, Len(actionsCache))
  /\ UNCHANGED <<client, gateway, main, caller, given, returned, workspace>>

NextWorkspace ==
  \/ \E ref \in RefNames : RestoreWorkspace(ref)
  \/ SaveWorkspace
  \/ \E i \in 1..Cardinality(RefNames) : Evict(i)

WorkspaceSpec == InitWorkspace /\ [][NextWorkspace]_vars

(* =============================== claims =============================== *)
\* C1: every sendMessage call issued on a client that has a connection eventually
\* settles (resolves or rejects), whatever the server delivers, given that timers
\* fire and the event loop runs.
C1_EveryCallSettles ==
  \A c \in CallIds : [](Suspended(calls[c]) => <>Settled(calls[c]))

\* what the caller of each sendMessage sees
Outcome(cs) == [c \in CallIds |-> <<cs[c].pc, cs[c].result, cs[c].error>>]

\* C2: the outcome of a call is decided once. After the call has settled its outcome
\* never changes; a response on its id or a lifecycle end that arrives later leaves
\* the pending-call map as it is; and so does either timeout of the call, at whatever
\* moment after the settlement its callback runs.
C2_DecidedOnce ==
  /\ [](\A c \in CallIds :
          Settled(calls[c]) /\ batch = 0 =>
            /\ Drain(RequestTimeoutBody(This, c)).pendingRequests = pendingRequests
            /\ Outcome(Drain(RequestTimeoutBody(This, c)).calls) = Outcome(calls)
            /\ Drain(LifecycleTimeoutBody(This, c)).pendingRequests = pendingRequests
            /\ Outcome(Drain(LifecycleTimeoutBody(This, c)).calls) = Outcome(calls))
  /\ [][\A c \in CallIds :
          Settled(calls[c]) =>
            /\ Outcome(calls')[c] = Outcome(calls)[c]
            /\ \A k \in ConnIds : \A m \in Inbound :
                 (ResponseTo(m, c) \/ LifecycleEnd(m)) /\ Deliver(k, m)
                   => pendingRequests' = pendingRequests
     ]_vars

\* C2 witness: a settled call for which both the completion response and the
\* lifecycle end have arrived.
C2_Witness ==
  \E c \in CallIds :
    Settled(calls[c]) /\ calls[c].completed /\ calls[c].lifecycleEnd

\* C3: a call that has been accepted and has received nothing else resolves, on the
\* completion response on its id, with the text of the completion payload.
C3_AcceptedThenCompletion ==
  \A c \in CallIds :
    observed[c].answer.kind = "completion" =>
      /\ calls[c].completed /\ calls[c].completionText = observed[c].answer.text
      /\ \/ calls[c].pc = "race" /\ batch # 0
         \/ calls[c].pc = "resolved" /\ calls[c].result = observed[c].answer.text

\* C4: a call that was accepted and then ended by the lifecycle end, without a
\* completion response, resolves with the fragments received since it was issued,
\* in the order of arrival, or with the placeholder when there were none.
C4_FallbackIsStream ==
  \A c \in CallIds :
    calls[c].pc = "resolved" /\ ~calls[c].completed =>
      calls[c].result = IF observed[c].heard = <<>> THEN NoResponseTextCaptured
                        ELSE C4_Concat(observed[c].heard)

\* C4 witness: "Hello, " then "world" before the lifecycle end gives "Hello, world".
C4_Witness ==
  \E c \in CallIds :
    /\ calls[c].pc = "resolved" /\ ~calls[c].completed
    /\ observed[c].heard = <<"Hello, ", "world">>
    /\ calls[c].result = "Hello, world"

\* C5: a call that has been accepted is resolved by an error response on its id, with
\* a text made from the error, in the step that handles the response (the reactions
\* of that step included): no lifecycle event and no timeout is waited for.
C5_ErrorFastFail ==
  \A c \in CallIds :
    observed[c].answer.kind = "error" =>
      /\ calls[c].completed /\ calls[c].completionText = observed[c].answer.text
      /\ \/ calls[c].pc = "race" /\ batch # 0
         \/ calls[c].pc = "resolved" /\ calls[c].result = observed[c].answer.text

\* a call to which no response has been delivered
Unanswered(c) ==
  calls[c].pc = "awaitAccept" /\ calls[c].accepted = "pending" /\ RecordOf(c)

\* C6: a call that receives no response is rejected with the timeout error when its
\* deadline expires, neither before nor after, and its record is removed in that step.
C6_TimeoutAtDeadline ==
  /\ [](\A c \in CallIds :
          /\ Unanswered(c) => observed[c].waited <= Ceiling
          /\ calls[c].pc = "rejected" /\ calls[c].error = AgentRequestTimeout
               => observed[c].waited = Ceiling /\ ~RecordOf(c))
  /\ [][\A c \in CallIds :
          Unanswered(c) /\ RequestTimeout(c)
            => /\ calls'[c].pc = "rejected" /\ calls'[c].error = AgentRequestTimeout
               /\ calls'[c].id \notin DOMAIN pendingRequests'
     ]_vars

\* C6 witness: a call rejected by its hard timeout.
C6_Witness ==
  \E c \in CallIds : calls[c].pc = "rejected" /\ calls[c].error = AgentRequestTimeout

\* C7: the call has one ceiling, counted from the moment it is issued: an accepted
\* call that nothing has decided is rejected when the ceiling expires, so it never
\* waits longer, and its record leaves the map with the rejection.
C7_OneCeiling ==
  \A c \in CallIds :
    /\ Undecided(c) => observed[c].waited <= Ceiling /\ RecordOf(c)
    /\ calls[c].pc = "rejected" /\ calls[c].error \in {AgentRequestTimeout, AgentLifecycleTimeout}
         => observed[c].waited = Ceiling

\* C8: disconnect() settles every pending call: when it returns no record is left in
\* the map and no call is suspended.
C8_DisconnectSettlesAll ==
  [][Disconnect => DOMAIN pendingRequests' = {} /\ ~CallSuspended']_vars

\* C9: disconnect() can be called in every state; it closes the socket the client
\* holds and forgets it; called again, it changes nothing.
C9_DisconnectIdempotent ==
  /\ [](batch = 0 => ENABLED Disconnect)
  /\ [][Disconnect =>
          /\ ws' = 0
          /\ ws # 0 => ReadyState(sockets'[ws]) \in {"CLOSING", "CLOSED"}
          /\ ws = 0 => UNCHANGED vars
     ]_vars

\* C9 witness: disconnect() has closed the socket while a call was in flight.
C9_Witness ==
  ws = 0 /\ CallSuspended /\ \E k \in ConnIds : sockets[k] \in {"CLOSING", "ABORTING"}

\* C10: when the socket has opened, the server has sent a challenge, the client has
\* written its connect request and the server replies hello-ok on the id of that
\* request, the pending connect() resolves, in the step that handles the reply.
C10_HelloResolvesConnect ==
  \A k \in greeted : connects[k].state = "resolved"

\* C10 witness: connect() has resolved on the server's hello-ok.
C10_Witness ==
  \E k \in greeted :
    connects[k].state = "resolved" /\ \E q \in sent : q.method = "connect" /\ q.socket = k

\* C16: with two accepted calls in flight, a completion or error response on the id
\* of one of them settles that call and leaves the other call as it was.
C16_CorrelatedById ==
  [][\A a \in CallIds : \A b \in CallIds \ {a} : \A k \in ConnIds : \A m \in Inbound :
       /\ Undecided(a) /\ Undecided(b) /\ RecordOf(a) /\ RecordOf(b)
       /\ CompletionOf(m, a) \/ ErrorOf(m, a)
       /\ Deliver(k, m)
       => /\ calls'[a].completed
          /\ calls'[b] = calls[b]
    ]_vars

\* C11: when the server refuses the connect request and says why, the pending
\* connect() rejects with an error that carries the server's words.
C11_RefusalReachesCaller ==
  \A k \in ConnIds :
    handshakes[k].refusal # "" =>
      connects[k].state = "rejected" /\ connects[k].error = handshakes[k].refusal

\* C11 witness: connect() was rejected with "Connect rejected: boom".
C11_Witness ==
  \E k \in ConnIds :
    /\ handshakes[k].refusal = C11_ErrorOf("boom")
    /\ connects[k].state = "rejected" /\ connects[k].error = "Connect rejected: boom"

\* C12: connect() resolves only on a hello whose payload confirms the protocol version
\* the client supports.
C12_ReadyOnlyOnSupportedProtocol ==
  \A k \in ConnIds :
    connects[k].state = "resolved" => handshakes[k].hello = PROTOCOL_VERSION

\* the time, in ticks, that connect() number k has left: none once its timer is gone
C13_TimeLeft(k) == IF ConnectTimer(k) \in DOMAIN timers THEN timers[ConnectTimer(k)] ELSE 0

\* C13: when the deadline of connect() passes with the handshake not completed,
\* connect() rejects with the timeout error, and not before the deadline; it stays
\* rejected whatever arrives afterwards, a hello included.
C13_HandshakeDeadline ==
  /\ [](\A k \in ConnIds :
          /\ handshakes[k].expired =>
                connects[k].state = "rejected" /\ connects[k].error = ConnectHandshakeTimeout
          /\ connects[k].state = "rejected" /\ connects[k].error = ConnectHandshakeTimeout
                => handshakes[k].expired
          /\ connects[k].state = "pending" => ConnectTimer(k) \in DOMAIN timers)
  /\ [][\A k \in ConnIds :
          /\ ConnectTimeout(k) => C13_TimeLeft(k) = 0
          /\ connects[k].state = "rejected" => connects'[k] = connects[k]
     ]_vars

\* C13 witness: connect() was rejected by its deadline, on a socket that had opened
\* and had been sent a challenge, and a hello on the id of the connect request is late.
C13_Witness ==
  \E k \in ConnIds :
    /\ handshakes[k].expired /\ connects[k].state = "rejected"
    /\ sockets[k] = "OPEN"
    /\ \E q \in sent : q.method = "connect" /\ q.socket = k /\ q.id = connectRequestId

\* C14: an error of the socket, or its closure, while connect() is pending rejects
\* connect() with a connection failure; the client opens no other socket and writes
\* nothing in that step: it does not try again.
C14_TransportFailureRejects ==
  [][\A k \in ConnIds :
       connects[k].state = "pending" /\ (SocketError(k) \/ SocketClose(k))
         => /\ connects'[k].state = "rejected"
            /\ connects'[k].error \in {SocketFailure, ClosedDuringHandshake}
            /\ \A j \in ConnIds \ {k} : sockets'[j] = sockets[j]
            /\ ws' = ws /\ sent' = sent
            /\ \A j \in ConnIds : connects[j].state # "pending" => connects'[j] = connects[j]
    ]_vars

\* C14 witness: the socket closed after the challenge, before any hello, and connect()
\* was rejected for it.
C14_Witness ==
  \E k \in ConnIds :
    /\ connects[k].state = "rejected" /\ connects[k].error = ClosedDuringHandshake
    /\ sockets[k] = "CLOSED"
    /\ \E q \in sent : q.method = "connect" /\ q.socket = k

\* C15: when the socket of an established connection fails or closes while calls are
\* pending, every pending call is rejected in that step and no record stays in the map.
C15_FailureRejectsPendingCalls ==
  [][\A k \in ConnIds :
       /\ k = ws /\ connects[k].state = "resolved"
       /\ SocketError(k) \/ SocketClose(k)
       => /\ \A c \in CallIds : Suspended(calls[c]) => calls'[c].pc = "rejected"
          /\ DOMAIN pendingRequests' = {}
    ]_vars

\* C17: a completion response that reaches an accepted call which nothing has decided
\* resolves it with the fragments received so far, joined, if there are any; else with
\* the text of the completion payload; else with the placeholder.
C17_PreferStreamBuffer ==
  \A c \in CallIds :
    observed[c].answer.kind \in {"streamed", "completion"} =>
      /\ calls[c].completed /\ calls[c].completionText = observed[c].answer.text
      /\ calls[c].pc = "resolved" => calls[c].result = observed[c].answer.text

\* C18: a frame that does not parse, or whose type is neither a response nor an event,
\* is ignored: in every state, handling it leaves the client as it is (the pending-call
\* map, the stream buffer, the handshake and every call), and makes no promise
\* reaction runnable.
C18_MalformedIgnored ==
  \A m \in Malformed :
    /\ HandleMessage(This, m) = This
    /\ Runnable(HandleMessage(This, m)) = Runnable(This)

\* C18 witness: a malformed frame is handled, and ignored, while a call is in flight
\* with fragments in the stream buffer.
C18_Witness ==
  /\ \E c \in CallIds : Undecided(c) /\ RecordOf(c)
  /\ streamBuffer # <<>>
  /\ \E k \in ConnIds : sockets[k] = "OPEN"
  /\ \A m \in Malformed : HandleMessage(This, m) = This

\* C19: a client has at most one connection at any time: no two sockets that
\* connect() has created for it are open, their handlers delivering to the client,
\* at once.
C19_AtMostOneConnection ==
  \A j \in ConnIds : \A k \in ConnIds \ {j} :
    ~(sockets[j] = "OPEN" /\ sockets[k] = "OPEN")

\* the lifecycle timeout the README states, in milliseconds
ReadmeLifecycleTimeoutMs == 120000

\* C21: the timeout the client applies while it waits for the agent's lifecycle to end
\* is 120 seconds: the timer behind the wait never has more than that left.
C21_LifecycleTimeoutIs120s ==
  \A c \in CallIds :
    LifecycleTimer(c) \in DOMAIN timers =>
      timers[LifecycleTimer(c)] <= Ticks(ReadmeLifecycleTimeoutMs)

\* C22: a model name works the same with and without the provider prefix: for every
\* provider p and every non-empty model name m without a "/", resolveModel(p, m)
\* equals resolveModel(p, p + "/" + m), and resolveModel applied to its own result
\* returns that result.
C22_PrefixOptional ==
  given # NoArguments /\ given.model # <<>> /\ ~Includes(given.model, "/") =>
    /\ {"given", "prefixed"} \subseteq DOMAIN returned =>
         returned["given"] = returned["prefixed"]
    /\ {"given", "again"} \subseteq DOMAIN returned =>
         returned["again"] = returned["given"]

\* C22 witness: a bare model name has been resolved in its three forms, to the model
\* with the provider before it.
C22_Witness ==
  /\ given # NoArguments /\ given.provider = <<"xai">> /\ given.model = <<"grok-3-fast">>
  /\ DOMAIN returned = {"given", "prefixed", "again"}
  /\ returned["given"] = <<"xai", "/", "grok-3-fast">>

\* C23: the workspace cache is branch-specific: the workspace that a run on branch B
\* restores was saved by a run on branch B, never by a run on another branch.
C23_CacheBranchSpecific ==
  workspace.pc = "restored" /\ workspace.from # "" =>
    workspace.from = Branch(workspace.ref)

\* C28: with calls issued one after the other, the result of a call depends only on
\* the messages of its own run: a lifecycle end or a stream fragment of an earlier
\* call's run that arrives while the later call is in flight neither ends the later
\* call nor adds text to the stream buffer it reads its result from.
C28_OwnRunOnly ==
  [][\A k \in ConnIds : \A m \in Inbound : \A a \in CallIds : \A b \in CallIds :
       /\ a < b /\ Suspended(calls[b])
       /\ OfRun(m) /\ m.run = a
       /\ Deliver(k, m)
       => /\ calls'[b].lifecycleEnd = calls[b].lifecycleEnd
          /\ streamBuffer' = streamBuffer
    ]_vars

\* C24: correlation ids are unique and strictly increasing over the life of a client,
\* across handshake requests, calls and reconnects: the counter never goes back, each
\* id issued is one more than the last, no two requests or calls bear the same id, and
\* each record of the pending-call map is the record of the one call with that id.
C24_IdsUniqueIncreasing ==
  /\ [](/\ \A i \in DOMAIN pendingRequests :
              i \in 1..requestId /\ calls[pendingRequests[i].call].id = i
        /\ \A q \in sent : q.id \in 1..requestId
        /\ \A q \in sent : \A r \in sent : q.id = r.id => q = r
        /\ \A a \in CallIds : \A b \in CallIds \ {a} :
              calls[a].id # 0 => calls[a].id # calls[b].id
        /\ \A c \in CallIds : calls[c].id # 0 =>
              /\ calls[c].id # connectRequestId
              /\ \A q \in sent : q.method = "connect" => q.id # calls[c].id)
  /\ [][/\ requestId' >= requestId
        /\ \A q \in sent' \ sent : q.id = requestId + 1 /\ requestId' = requestId + 1
        /\ \A c \in CallIds : calls'[c].id # calls[c].id =>
              calls'[c].id = requestId + 1 /\ requestId' = requestId + 1
        /\ connectRequestId' \notin {0, connectRequestId} =>
              connectRequestId' = requestId + 1 /\ requestId' = requestId + 1
       ]_vars

\* C24 witness: the client has issued an id to a handshake request and the next to a
\* call, and has been connected again since.
C24_Witness ==
  /\ connects[2].state = "pending"
  /\ requestId = 2
  /\ \E q \in sent : q.method = "connect" /\ q.id = 1
  /\ \E q \in sent : q.method = "agent" /\ q.id = 2
  /\ calls[1].id = 2

\* the server's "accepted" response on the id of call c
AcceptedOn(c) ==
  [type |-> "res", id |-> calls[c].id, ok |-> TRUE, error |-> "", payload |-> Accepted]

\* C25: the first "accepted" response on the id of a dual-phase call resolves only the
\* acceptance and keeps the record of the call in the map; a further "accepted"
\* response on the same id changes nothing: it neither resolves the acceptance again
\* nor settles or removes the call.
C25_AcceptedOnce ==
  /\ [](\A c \in CallIds :
          calls[c].accepted = "resolved" =>
            /\ HandleMessage(This, AcceptedOn(c)) = This
            /\ Drain(HandleMessage(This, AcceptedOn(c))) = Drain(This))
  /\ [][\A k \in ConnIds : \A c \in CallIds :
          /\ calls[c].pc = "awaitAccept" /\ calls[c].accepted = "pending" /\ RecordOf(c)
          /\ Deliver(k, AcceptedOn(c))
          => /\ calls'[c].accepted = "resolved"
             /\ calls'[c].id \in DOMAIN pendingRequests'
             /\ ~calls'[c].completed /\ ~Settled(calls'[c])
             /\ calls'[c].result = "" /\ calls'[c].error = ""
       ]_vars

\* C25 witness: an accepted call waits for its completion with its record in the map,
\* where a further "accepted" response is handled and changes nothing.
C25_Witness ==
  \E c \in CallIds :
    /\ calls[c].pc = "race" /\ calls[c].accepted = "resolved" /\ RecordOf(c)
    /\ \E k \in ConnIds : sockets[k] = "OPEN"
    /\ HandleMessage(This, AcceptedOn(c)) = This

\* C26: whenever a sendMessage call has settled, by a completion response, an error
\* response, the lifecycle fallback or either timeout, the pending-call map holds no
\* record for the id of that call.
C26_NoRecordOnceSettled ==
  \A c \in CallIds :
    Settled(calls[c]) => calls[c].id \notin DOMAIN pendingRequests

\* C26 witness: a call was rejected by the lifecycle timeout, the outcome after which
\* sendMessage itself deletes nothing, and the map holds no record for it.
C26_Witness ==
  \E c \in CallIds :
    /\ calls[c].pc = "rejected" /\ calls[c].error = AgentLifecycleTimeout
    /\ calls[c].id \notin DOMAIN pendingRequests

\* C27: while a dual-phase call is accepted and suspended, with nothing having decided
\* it, its record is in the pending-call map, so that a completion or error response
\* on its id reaches the call.
C27_RecordWhileAccepted ==
  \A c \in CallIds : Undecided(c) => RecordOf(c)

\* the server's response with ok=false and the error e on the id of call c
RefusalOn(c, e) ==
  [type |-> "res", id |-> calls[c].id, ok |-> FALSE, error |-> e, payload |-> NoPayload]

\* C29: a response with ok=false on the id of a dual-phase call that has not been
\* accepted rejects the acceptance with the server's message ("Request failed" when the
\* server gives none) and removes the record; and a call whose acceptance was
\* rejected is rejected with that error once its continuation has run, never resolved.
C29_RefusalBeforeAcceptance ==
  /\ [][\A k \in ConnIds : \A e \in ErrorTexts : \A c \in CallIds :
          /\ calls[c].pc = "awaitAccept" /\ calls[c].accepted = "pending" /\ RecordOf(c)
          /\ Deliver(k, RefusalOn(c, e))
          => /\ calls'[c].accepted = "rejected"
             /\ calls'[c].acceptErr = OrElse(e, RequestFailed)
             /\ calls'[c].id \notin DOMAIN pendingRequests'
       ]_vars
  /\ [](\A c \in CallIds :
          calls[c].accepted = "rejected" =>
            /\ calls[c].pc \in {"awaitAccept", "rejected"}
            /\ batch = 0 => calls[c].pc = "rejected" /\ calls[c].error = calls[c].acceptErr)

\* C29 witness: a call was refused with the server's message before any acceptance
\* and is rejected with it.
C29_Witness ==
  \E c \in CallIds :
    /\ calls[c].pc = "rejected" /\ calls[c].error = "boom"
    /\ calls[c].accepted = "rejected"
    /\ calls[c].id \notin DOMAIN pendingRequests

\* C30: an agent request is written to the channel only while the connection is Ready:
\* the connect() that created the socket has resolved on a hello, never while it is
\* still pending and never after it was rejected.
C30_AgentRequestOnlyWhenReady ==
  [][\A q \in sent' \ sent :
       q.method = "agent" =>
         /\ ws # 0 /\ q.socket = ws
         /\ connects[ws].state = "resolved"
    ]_vars

\* C31: sendMessage on a client without a connection (connect() never called, or
\* disconnect() called) rejects at once with "Not connected" and changes nothing else:
\* no id is consumed, no record is made, and the stream buffer, the completion signal
\* and every other call are left as they were.
C31_NotConnected ==
  /\ [](ws = 0 /\ batch = 0 =>
          \A c \in CallIds :
            calls[c].pc = "none" =>
              Drain(SendMessageBody(This, c)) =
                [This EXCEPT !.calls[c].pc = "rejected", !.calls[c].error = NotConnected])
  /\ [][ws = 0 /\ SendMessage =>
          /\ \E c \in CallIds :
                /\ calls[c].pc = "none"
                /\ calls' = [calls EXCEPT ![c].pc = "rejected", ![c].error = NotConnected]
          /\ UNCHANGED <<requestId, pendingRequests, streamBuffer, agentCompletionResolve,
                         lifecycleEndPromise, lifecycleEndResolve, sent, timers>>
       ]_vars

\* C31 witness: sendMessage was called after disconnect() and was rejected with
\* "Not connected", no id consumed.
C31_Witness ==
  \E c \in CallIds :
    /\ calls[c].pc = "rejected" /\ calls[c].error = NotConnected /\ calls[c].id = 0
    /\ ws = 0 /\ \E k \in ConnIds : sockets[k] # "NONE"
    /\ requestId = 1 /\ pendingRequests = EmptyMap

C33_NewRequests == {r \in sent' \ sent : r.method = "connect"}

\* C33: a connect request is sent only as the reaction to a connect.challenge event:
\* every step that sends one is the delivery of a challenge, sends exactly one, on the
\* socket of the challenge, with the nonce of the challenge and an id no request had
\* before; a challenge that reaches the connected client is answered by one. While no
\* challenge has arrived no connect request has been sent, and on a transport that
\* never issues a challenge and of which no socket fails or closes, a pending connect()
\* ends by rejecting with the handshake timeout.
C33_ConnectOnlyOnChallenge ==
  /\ [][/\ C33_NewRequests # {} =>
             \E k \in ConnIds : \E m \in Inbound :
               /\ m.type = "event" /\ m.event = "connect.challenge" /\ Deliver(k, m)
               /\ C33_NewRequests =
                    {[socket |-> k, id |-> requestId + 1, method |-> "connect", nonce |-> m.nonce]}
               /\ \A r \in sent : r.id < requestId + 1
      /\ \A j \in ConnIds : \A e \in Inbound :
             (/\ e.type = "event" /\ e.event = "connect.challenge" /\ Deliver(j, e)
              /\ ws = j /\ sockets[j] = "OPEN") => Cardinality(C33_NewRequests) = 1
     ]_vars
  /\ [](challenges = 0 => \A r \in sent : r.method # "connect")
  /\ \A k \in ConnIds :
        ([](challenges = 0) /\ [](\A j \in ConnIds : sockets[j] \notin {"ERRORED", "CLOSED"})) =>
          (connects[k].state = "pending" ~>
             connects[k] = [state |-> "rejected", error |-> ConnectHandshakeTimeout])

\* C33 witness: the socket opened and stayed open, no challenge came, nothing was sent
\* as a connect request, and connect() was rejected with the handshake timeout.
C33_Witness ==
  \E k \in ConnIds :
    /\ sockets[k] = "OPEN" /\ challenges = 0
    /\ \A r \in sent : r.method # "connect"
    /\ connects[k] = [state |-> "rejected", error |-> ConnectHandshakeTimeout]

\* the fields of a string between its "|" segments
C34_Fields(str) ==
  LET pipes == {i \in 1..Len(str) : str[i] = "|"}
      n == Cardinality(pipes)
      At(j) == IF j = 0 THEN 0
               ELSE IF j = n + 1 THEN Len(str) + 1
               ELSE CHOOSE i \in pipes : Cardinality({p \in pipes : p < i}) = j - 1
  IN [j \in 1..(n + 1) |-> SubSeq(str, At(j - 1) + 1, At(j) - 1)]

\* C34: the assertion string is the "|"-join of, in this order, the version tag, the
\* fingerprint, the client id, the client mode, the role, the scopes joined by ",",
\* the signing timestamp and the token ("" when absent), with the nonce as a ninth
\* field exactly when a non-empty nonce is given; the tag is "v2" exactly when the
\* ninth field is there and "v1" otherwise.
C34_AssertionString ==
  "payload" \in DOMAIN returned =>
    LET p == given.params
        f == C34_Fields(returned["payload"])
        withNonce == p.nonce.some /\ p.nonce.val # <<>>
    IN /\ Len(f) = IF withNonce THEN 9 ELSE 8
       /\ f[1] = IF Len(f) = 9 THEN <<"v2">> ELSE <<"v1">>
       /\ f[2] = p.deviceId /\ f[3] = p.clientId /\ f[4] = p.clientMode /\ f[5] = p.role
       /\ f[6] = Join(p.scopes, Comma)
       /\ f[7] = <<ToString(p.signedAtMs)>>
       /\ f[8] = IF p.token.some THEN p.token.val ELSE <<>>
       /\ withNonce => f[9] = p.nonce.val

\* C34 witness: a string built with a nonce and without a token: nine fields, the
\* eighth empty.
C34_Witness ==
  /\ "payload" \in DOMAIN returned
  /\ given.params.nonce = Some(<<"n1">>) /\ given.params.token = None
  /\ Len(given.params.scopes) = 2
  /\ Len(C34_Fields(returned["payload"])) = 9
  /\ C34_Fields(returned["payload"])[8] = <<>>

\* the request's own parameters are the ones in the string its signature covers
C35_CarriesWhatWasSigned(req) ==
  LET f == C34_Fields(req.device.signature.payload) IN
    /\ Len(f) \in {8, 9}
    /\ f[2] = req.device.id /\ f[3] = req.client.id /\ f[4] = req.client.mode
    /\ f[5] = req.role /\ f[6] = Join(req.scopes, Comma)
    /\ f[7] = <<ToString(req.device.signedAt)>>
    /\ f[8] = IF req.auth.token.some THEN req.auth.token.val ELSE <<>>
    /\ IF Len(f) = 9 THEN req.device.nonce = Some(f[9])
                     ELSE req.device.nonce \in {None, Some(<<>>)}

\* C35: every connect request carries exactly the values that were signed: the
\* fingerprint, client id, client mode, role, scopes, token, signed-at timestamp and
\* nonce among its parameters are the fields of the assertion string under its
\* signature, the signature is made with the key of the client's identity, and the
\* nonce is the one of the challenge that triggered the request.
C35_RequestCarriesSignedValues ==
  /\ [](\A n \in 1..MaxConnects :
          RequestKeys[n] \in DOMAIN returned =>
            /\ C35_CarriesWhatWasSigned(returned[RequestKeys[n]])
            /\ returned[RequestKeys[n]].device.signature.key = given.deviceIdentity.privateKeyPem)
  /\ [][\A n \in 1..MaxConnects : \A nonce \in OptionalNonces : \A now \in Times :
          Challenge(n, nonce, now) => returned'[RequestKeys[n]].device.nonce = nonce
       ]_vars

\* C35 witness: a request built on a challenge with a nonce while a gateway token is
\* set: nine signed fields, the token among them.
C35_Witness ==
  /\ "first" \in DOMAIN returned
  /\ returned["first"].device.nonce = Some(<<"n1">>)
  /\ returned["first"].auth.token = Some(<<"secret">>)
  /\ Len(C34_Fields(returned["first"].device.signature.payload)) = 9

\* C36: the device identity is created in the constructor and never changes, and
\* every connect request of the client carries the fingerprint and the public key of
\* that identity, so any two requests of one client carry the same ones.
C36_IdentityFixed ==
  /\ [][given'.deviceIdentity = given.deviceIdentity]_vars
  /\ [](\A n \in 1..MaxConnects :
          RequestKeys[n] \in DOMAIN returned =>
            /\ returned[RequestKeys[n]].device.id = given.deviceIdentity.deviceId
            /\ returned[RequestKeys[n]].device.id =
                 FingerprintPublicKey(given.deviceIdentity.publicKeyPem)
            /\ returned[RequestKeys[n]].device.publicKey =
                 PublicKeyRawBase64UrlFromPem(given.deviceIdentity.publicKeyPem))
  /\ []({"first", "second"} \subseteq DOMAIN returned =>
          /\ returned["first"].device.id = returned["second"].device.id
          /\ returned["first"].device.publicKey = returned["second"].device.publicKey)

\* C36 witness: two requests of one client, built at different times on different
\* challenges, with one fingerprint and one public key.
C36_Witness ==
  /\ {"first", "second"} \subseteq DOMAIN returned
  /\ returned["first"].device.nonce # returned["second"].device.nonce
  /\ returned["first"].device.signedAt # returned["second"].device.signedAt
  /\ returned["first"].device.id = returned["second"].device.id

\* the fallback chain over a completion payload; "" when every step of it is empty
C37_ChainOf(p) ==
  LET texts == SelectSeq(p.result, LAMBDA t : t # "") IN
    IF texts # <<>> THEN JoinWith(texts, "\n")
    ELSE IF p.summary # "" THEN p.summary
    ELSE p.error

\* C37: the result text of a completion response is the non-empty texts of its result
\* joined in their order; if there are none, its summary; if that is empty too, its
\* error detail; and handling the completion response removes the record of the call
\* from the pending-call map.  In every state and for every completion response on the
\* id of a call with a record: the record is gone after handling it, and a call that
\* waits for its completion with nothing streamed completes with the text of the chain
\* (the placeholder when the chain yields nothing).
C37_ResultTextChain ==
  \A c \in CallIds : \A m \in Inbound :
    CompletionOf(m, c) /\ RecordOf(c) =>
      LET s == HandleMessage(This, m) IN
        /\ ResultText(m.payload) = C37_ChainOf(m.payload)
        /\ calls[c].id \notin DOMAIN s.pendingRequests
        /\ agentCompletionResolve = c /\ streamBuffer = <<>> /\ ~calls[c].completed =>
             /\ s.calls[c].completed
             /\ s.calls[c].completionText =
                  IF C37_ChainOf(m.payload) # "" THEN C37_ChainOf(m.payload) ELSE EmptyResponse

\* C37 witness: a completion response without result texts and without summary has
\* been handled: the call resolved with its error detail and its record is gone.
C37_Witness ==
  \E c \in CallIds :
    /\ calls[c].pc = "resolved" /\ calls[c].completed
    /\ calls[c].completionText = "boom" /\ calls[c].result = "boom"
    /\ observed[c].answer.kind = "completion"
    /\ ~RecordOf(c)

\* C38: stopGateway() always terminates: every call that has not returned at once
\* resolves, on the exit of the process or on the timer that sends SIGKILL; and once a
\* call has resolved no gateway process is recorded.
C38_StopGatewayTerminates ==
  /\ \A i \in StopIds :
        gateway.stops[i].state = "pending" ~> gateway.stops[i].state = "resolved"
  /\ [][\A i \in StopIds :
          gateway.stops[i].state # "resolved" /\ gateway'.stops[i].state = "resolved" =>
            ~gateway'.recorded]_vars

\* C39: cleanup is guaranteed in run(): whenever run() finishes after the client was
\* created, whatever failed or succeeded on the way, the client has been disconnected
\* and stopGateway() has been invoked, and awaited, before; and run() finishes in no
\* other way than from its cleanup.
C39_CleanupGuaranteed ==
  /\ [](main.pc = "done" =>
          /\ main.stop # 0 /\ gateway.stops[main.stop].state = "resolved"
          /\ main.client => main.disconnected)
  /\ [][main'.pc = "done" /\ main.pc # "done" => main.pc = "stopGateway" /\ RunEnd]_vars

\* C39 witness: run() has finished after the call failed: the client was disconnected
\* and the stopGateway() of the cleanup resolved by killing the process.
C39_Witness ==
  /\ main.pc = "done" /\ main.client /\ main.failed /\ main.disconnected
  /\ gateway.stops[main.stop] = [state |-> "resolved", by |-> "kill"]

====
